---- MODULE Spec2Model ----
(***************************************************************************)
(* Model of the validation orchestration engine of the OCR string          *)
(* validation tool (src/src/validation_engine.py) together with the data   *)
(* contracts of src/src/models.py.                                         *)
(*                                                                         *)
(* The engine is a state machine: its fields (_observers and the three     *)
(* dataset caches), the position of the running validate_all or            *)
(* validate_step call, and the locals of that call.  The loader, the       *)
(* extractor, the comparator and the observers are injected collaborators: *)
(* what they return or raise is drawn from small sets.  Optional values    *)
(* (Python None) are sequences of length at most one.  Confidences in      *)
(* [0,1] are the integers 0..MaxConf, read as multiples of 1/MaxConf.      *)
(***************************************************************************)
EXTENDS Integers, Sequences, FiniteSets, TLC

(***************************************************************************)
(* Bounds of the model.                                                    *)
(***************************************************************************)
MaxSteps == 2
MaxObservers == 2
MaxConf == 1

(***************************************************************************)
(* Small input sets.                                                       *)
(***************************************************************************)
None == <<>>
Some(x) == <<x>>

TestStep(st, sc, id) == [step_id |-> st, screen_id |-> sc, expected_string_id |-> id]

Coordinate(l, t, r, b) == [left |-> l, top |-> t, right |-> r, bottom |-> b]

\* A screen id of 300 characters: <screen_id>.png is longer than a file name
\* may be, no such file exists, and stat() of its path raises OSError.
LongScreenId ==
    "AAAAAAAAAAAAAAAAAAAAAAAAAAAAAAAAAAAAAAAAAAAAAAAAAAAAAAAAAAAAAAAAAAAAAAAAAAAAAAAAAAAAAAAAAAAAAAAAAAAAAAAAAAAAAAAAAAAAAAAAAAAAAAAAAAAAAAAAAAAAAAAAAAAAAAAAAAAAAAAAAAAAAAAAAAAAAAAAAAAAAAAAAAAAAAAAAAAAAAAAAAAAAAAAAAAAAAAAAAAAAAAAAAAAAAAAAAAAAAAAAAAAAAAAAAAAAAAAAAAAAAAAAAAAAAAAAAAAAAAAAAAAAAAAAAAAAAAAAAAA"

StepPool ==
    {TestStep("S1", "A", "g"), TestStep("S2", "A", "h"), TestStep("S2", "B", "g"),
     TestStep("S1", LongScreenId, "g")}
ScreenIds == {"A", "B", LongScreenId}
\* Screens whose screenshot may be on disk; the screenshots of "B" and of
\* LongScreenId are absent.
ScreenshotPool == {"A"}
StringIds == {"g", "h"}
Texts == {"", "Hello"}
OcrTexts == {"Hel1o"}
Boxes == {Coordinate(0, 0, 10, 5)}
\* Two observer objects: the hooks of the first return, those of the second raise.
Observers == {"quiet", "faulty"}
FaultyObservers == {"faulty"}
ConfLevels == 0..MaxConf

SeqsUpTo(S, n) == UNION {[1..k -> S] : k \in 0..n}

\* TestStep.coordinate_key
coordinate_key(step) == <<step.step_id, step.screen_id, step.expected_string_id>>

\* Coordinate.to_tuple
to_tuple(c) == <<c.left, c.top, c.right, c.bottom>>

\* The keys a coordinate index may hold: those of the steps whose screen id
\* can name a file.
KeyPool == {coordinate_key(s) : s \in {t \in StepPool : t.screen_id # LongScreenId}}

\* What an injected DataLoader may return.
StepLists == SeqsUpTo(StepPool, MaxSteps)
ExpectedMaps == UNION {[K -> Texts] : K \in SUBSET StringIds}
CoordIndexes == UNION {[K -> Boxes] : K \in SUBSET KeyPool}

\* The five classifications of models.MatchResult.
MatchResult == {"PASS", "FAIL", "ERROR", "MISSING_IMAGE", "MISSING_COORDINATES"}

\* models.ValidationResult; the three Optional fields default to None.
ValidationResult(step, expected_text, ocr_output, match_result, confidence_score, processing_time_ms, error_message) ==
    [step |-> step, expected_text |-> expected_text, ocr_output |-> ocr_output,
     match_result |-> match_result, confidence_score |-> confidence_score,
     processing_time_ms |-> processing_time_ms, error_message |-> error_message]

\* The value of a time measurement, (time.time() - start_time) * 1000.
Elapsed == "elapsed_ms"

VARIABLES
    observers,          \* self._observers
    test_steps,         \* self._test_steps (None or the loaded list)
    expected_strings,   \* self._expected_strings
    coordinates,        \* self._coordinates
    files,              \* screen ids whose <screenshot-dir>/<screen_id>.png exists
    call,               \* the entry point called last: none, validate_all, validate_step
    pc,                 \* position of the running call; idle when none runs
    loop_steps,         \* the list object the for loop of validate_all iterates
    idx,                \* index of the step in hand in loop_steps (0 in validate_step)
    step,               \* the step in hand (Optional)
    locals,             \* expected_text, coordinate, ocr_output, ocr_confidence of _validate_step
    results,            \* the local list results of validate_all
    obs_i,              \* index of the next observer of the running _notify_* loop
    outcome,            \* what the caller got from the last call
    loaded,             \* history: what the loader returned in this call
    open_calls,         \* history: the Image.open calls of this call and how they ended
    ext_calls,          \* history: calls received by the extractor in this call
    cmp_calls,          \* history: calls received by the comparator in this call
    arg,                \* history: the step passed to validate_step (Optional)
    hook_calls          \* history: the observer hook calls of this call, in order

vars == <<observers, test_steps, expected_strings, coordinates, files, call, pc,
          loop_steps, idx, step, locals, results, obs_i, outcome, loaded,
          open_calls, ext_calls, cmp_calls, arg, hook_calls>>

engine_caches == <<test_steps, expected_strings, coordinates>>
history == <<loaded, open_calls, ext_calls, cmp_calls, arg, hook_calls>>

NoLocals == [expected_text |-> "", coordinate |-> None, ocr_output |-> "", ocr_confidence |-> 0]
NoLoaded == [steps |-> None, strings |-> None, coords |-> None]
NoOutcome == [kind |-> "none", results |-> <<>>, error |-> <<>>]

\* ValidationEngine.__init__
Init ==
    /\ observers = <<>>
    /\ test_steps = None
    /\ expected_strings = None
    /\ coordinates = None
    /\ files \in SUBSET ScreenshotPool
    /\ call = "none"
    /\ pc = "idle"
    /\ loop_steps = <<>>
    /\ idx = 0
    /\ step = None
    /\ locals = NoLocals
    /\ results = <<>>
    /\ obs_i = 1
    /\ outcome = NoOutcome
    /\ loaded = NoLoaded
    /\ open_calls = <<>>
    /\ ext_calls = <<>>
    /\ cmp_calls = <<>>
    /\ arg = None
    /\ hook_calls = <<>>

(***************************************************************************)
(* Helpers of the per-step algorithm, ValidationEngine._validate_step.     *)
(***************************************************************************)
\* dict.get(key, default)
Get(d, k, default) == IF k \in DOMAIN d THEN d[k] ELSE default

\* self._expected_strings.get(step.expected_string_id, "")
resolve_expected_text(strings, s) == Get(strings, s.expected_string_id, "")

\* Mutant: the short circuit on a missing expected text is left out.
expected_text_never_missing(expected_text) == FALSE

\* `if not expected_text`
expected_text_missing(expected_text) == expected_text = ""

\* image_path.exists() for image_path = screenshot_dir / f"{step.screen_id}.png":
\* Path.exists() returns False when stat() fails for want of the file and lets
\* every other OSError out, the one for a name too long among them.
image_exists(fs, s) ==
    IF s.screen_id = LongScreenId
    THEN [raises |-> "[Errno 36] File name too long", exists |-> FALSE]
    ELSE [raises |-> "", exists |-> s.screen_id \in fs]

\* Mutant: the coordinate is looked up by screen id alone.
resolve_coordinate_by_screen(coords, s) ==
    IF \E key \in DOMAIN coords : key[2] = s.screen_id
    THEN Some(coords[CHOOSE key \in DOMAIN coords : key[2] = s.screen_id])
    ELSE None

\* self._coordinates.get(step.coordinate_key); None when there is no entry
resolve_coordinate(coords, s) ==
    IF coordinate_key(s) \in DOMAIN coords THEN Some(coords[coordinate_key(s)]) ELSE None

\* Mutant: every compared step passes.
classify_always_pass(is_match) == "PASS"

\* MatchResult.PASS if is_match else MatchResult.FAIL
classify(is_match) == IF is_match THEN "PASS" ELSE "FAIL"

\* Mutant: the extraction confidence alone is reported.
combined_confidence_ocr_only(ocr_confidence, match_confidence) == ocr_confidence

\* min(ocr_confidence, match_confidence)
combined_confidence(ocr_confidence, match_confidence) ==
    IF match_confidence < ocr_confidence THEN match_confidence ELSE ocr_confidence

\* Mutant: a step without expected text is reported as a step without image.
missing_expected_result_as_missing_image(s) ==
    ValidationResult(s, "", "", "MISSING_IMAGE", None, None,
                     Some(<<"Image not found", s.screen_id>>))

\* the result returned at lines 230-236
missing_expected_result(s) ==
    ValidationResult(s, "", "", "ERROR", None, None,
                     Some(<<"Expected string not found", s.expected_string_id>>))

\* Mutant: the result for a missing image carries an elapsed time.
missing_image_result_timed(s, expected_text) ==
    ValidationResult(s, expected_text, "", "MISSING_IMAGE", None, Some(Elapsed),
                     Some(<<"Image not found", s.screen_id>>))

missing_image_result(s, expected_text) ==
    ValidationResult(s, expected_text, "", "MISSING_IMAGE", None, None,
                     Some(<<"Image not found", s.screen_id>>))

missing_coordinates_result(s, expected_text) ==
    ValidationResult(s, expected_text, "", "MISSING_COORDINATES", None, None,
                     Some(<<"Coordinates not found for">> \o coordinate_key(s)))

\* Mutant: a step whose extraction or comparison raised is reported as FAIL.
exception_result_as_fail(s, expected_text, message) ==
    ValidationResult(s, expected_text, "", "FAIL", None, Some(Elapsed), Some(message))

\* the `except Exception as e` handler of _validate_step
exception_result(s, expected_text, message) ==
    ValidationResult(s, expected_text, "", "ERROR", None, Some(Elapsed), Some(message))

compared_result(s, expected_text, ocr_output, ocr_confidence, is_match, match_confidence) ==
    ValidationResult(s, expected_text, ocr_output, classify(is_match),
                     Some(combined_confidence(ocr_confidence, match_confidence)),
                     Some(Elapsed), None)

\* How `Image.open(image_path)` and `img.crop(...)` end for a path that
\* image_path.exists() accepted: the region is there (""), the file has gone
\* since the check, or the path cannot be read as an image (a directory, a
\* file that is no image).
ImageOpenOutcomes == {"", "FileNotFoundError", "cannot identify image file"}

\* What the injected extractor does with one region: it returns (text, confidence)
\* or raises, a FileNotFoundError of its own included.
ExtractorErrors == {"FileNotFoundError", "backend failure"}
ExtractorOutcomes ==
    {[raises |-> "", text |-> t, confidence |-> c] : t \in OcrTexts, c \in ConfLevels}
    \cup {[raises |-> e, text |-> "", confidence |-> 0] : e \in ExtractorErrors}

\* What the injected comparator does with one pair: (is_match, confidence) or raises.
ComparatorOutcomes ==
    {[raises |-> "", is_match |-> m, confidence |-> c] : m \in BOOLEAN, c \in ConfLevels}
    \cup {[raises |-> "comparison failed", is_match |-> FALSE, confidence |-> 0]}

\* The message of the exception _extract_text_from_region raises for an
\* exception e raised while it opens, crops and extracts.
extraction_error(s, e) ==
    IF e = "FileNotFoundError"
    THEN <<"Image file not found", s.screen_id>>
    ELSE <<"Failed to extract text from region", e>>

(***************************************************************************)
(* Observer registration.                                                  *)
(***************************************************************************)
RemoveFirst(seq, x) ==
    LET i == CHOOSE k \in 1..Len(seq) : seq[k] = x /\ \A j \in 1..(k - 1) : seq[j] # x
    IN  SubSeq(seq, 1, i - 1) \o SubSeq(seq, i + 1, Len(seq))

Contains(seq, x) == \E k \in 1..Len(seq) : seq[k] = x

\* The record of the last call (what the caller got, the calls the
\* collaborators received) describes a call made with the observer list of that
\* time; it is dropped when the list changes.
forget_last_call ==
    /\ call' = "none"
    /\ loop_steps' = <<>>
    /\ idx' = 0
    /\ results' = <<>>
    /\ outcome' = NoOutcome
    /\ loaded' = NoLoaded
    /\ open_calls' = <<>>
    /\ ext_calls' = <<>>
    /\ cmp_calls' = <<>>
    /\ arg' = None
    /\ hook_calls' = <<>>

\* self._observers.append(observer)
add_observer(o) ==
    /\ pc = "idle"
    /\ Len(observers) < MaxObservers
    /\ observers' = Append(observers, o)
    /\ forget_last_call
    /\ UNCHANGED <<engine_caches, files, pc, step, locals, obs_i>>

\* `if observer in self._observers: self._observers.remove(observer)`
remove_observer(o) ==
    /\ pc = "idle"
    /\ observers' = IF Contains(observers, o) THEN RemoveFirst(observers, o) ELSE observers
    /\ forget_last_call
    /\ UNCHANGED <<engine_caches, files, pc, step, locals, obs_i>>

(***************************************************************************)
(* _load_data: the three loader calls, the except clause and the finally   *)
(* clause.                                                                 *)
(***************************************************************************)
\* Mutant: a load failure is swallowed and an empty result list returned.
load_failure_as_empty_list(message) == [kind |-> "returned", results |-> <<>>, error |-> <<>>]

\* raise ValidationError(f"Data loading failed: {str(e)}")
load_failure(message) ==
    [kind |-> "raised", results |-> <<>>,
     error |-> <<"ValidationError", "Data loading failed">> \o message]

\* Mutant: the finally clause leaves the caches as they are.
clear_caches_skipped == UNCHANGED <<test_steps, expected_strings, coordinates>>

\* The finally clause: the three caches are cleared.
clear_caches ==
    /\ test_steps' = None
    /\ expected_strings' = None
    /\ coordinates' = None

\* An exception reaches the except clause of _load_data: the caller gets a
\* ValidationError and the call is over.
load_data_raise(message) ==
    /\ outcome' = load_failure(message)
    /\ clear_caches
    /\ pc' = "idle"

EnterCall(entry) ==
    /\ pc = "idle"
    /\ call' = entry
    /\ pc' = "load_protocol"
    /\ loop_steps' = <<>>
    /\ idx' = 0
    /\ locals' = NoLocals
    /\ results' = <<>>
    /\ obs_i' = 1
    /\ outcome' = NoOutcome
    /\ loaded' = NoLoaded
    /\ open_calls' = <<>>
    /\ ext_calls' = <<>>
    /\ cmp_calls' = <<>>
    /\ hook_calls' = <<>>
    /\ UNCHANGED <<observers, engine_caches, files>>

\* validate_all(): enters `with self._load_data()`
validate_all ==
    /\ EnterCall("validate_all")
    /\ step' = None
    /\ arg' = None

\* validate_step(step): enters `with self._load_data()`
validate_step(s) ==
    /\ EnterCall("validate_step")
    /\ step' = Some(s)
    /\ arg' = Some(s)

load_test_protocol ==
    /\ pc = "load_protocol"
    /\ \/ \E steps \in StepLists :
            /\ test_steps' = Some(steps)
            /\ loaded' = [loaded EXCEPT !.steps = Some(steps)]
            /\ pc' = "load_strings"
            /\ UNCHANGED <<expected_strings, coordinates, outcome>>
       \/ /\ load_data_raise(<<"test protocol">>)
          /\ UNCHANGED loaded
    /\ UNCHANGED <<observers, files, call, loop_steps, idx, step, locals, results,
                   obs_i, open_calls, ext_calls, cmp_calls,
                   arg, hook_calls>>

load_expected_strings ==
    /\ pc = "load_strings"
    /\ \/ \E strings \in ExpectedMaps :
            /\ expected_strings' = Some(strings)
            /\ loaded' = [loaded EXCEPT !.strings = Some(strings)]
            /\ pc' = "load_coords"
            /\ UNCHANGED <<test_steps, coordinates, outcome>>
       \/ /\ load_data_raise(<<"expected strings">>)
          /\ UNCHANGED loaded
    /\ UNCHANGED <<observers, files, call, loop_steps, idx, step, locals, results,
                   obs_i, open_calls, ext_calls, cmp_calls,
                   arg, hook_calls>>

load_coordinates ==
    /\ pc = "load_coords"
    /\ \/ \E coords \in CoordIndexes :
            /\ coordinates' = Some(coords)
            /\ loaded' = [loaded EXCEPT !.coords = Some(coords)]
            /\ pc' = IF call = "validate_all" THEN "loaded" ELSE "step_resolve"
            /\ UNCHANGED <<test_steps, expected_strings, outcome>>
       \/ /\ load_data_raise(<<"coordinates">>)
          /\ UNCHANGED loaded
    /\ UNCHANGED <<observers, files, call, loop_steps, idx, step, locals, results,
                   obs_i, open_calls, ext_calls, cmp_calls,
                   arg, hook_calls>>

(***************************************************************************)
(* validate_all: the body of the with statement.                           *)
(***************************************************************************)
\* Mutant: an empty step list is not rejected and the start is announced.
validate_all_body_unguarded ==
    /\ pc = "loaded"
    /\ results' = <<>>
    /\ obs_i' = 1
    /\ pc' = "notify_start"
    /\ UNCHANGED <<engine_caches, outcome>>
    /\ UNCHANGED <<observers, files, call, loop_steps, idx, step, locals, history>>

\* `if not self._test_steps: raise ValidationError("No test steps loaded")`; the
\* exception leaves the with statement through the except clause of _load_data.
\* Otherwise `results = []` and _notify_validation_start begins.
validate_all_body ==
    /\ pc = "loaded"
    /\ IF test_steps[1] = <<>>
       THEN /\ load_data_raise(<<"No test steps loaded">>)
            /\ UNCHANGED <<results, obs_i>>
       ELSE /\ results' = <<>>
            /\ obs_i' = 1
            /\ pc' = "notify_start"
            /\ UNCHANGED <<engine_caches, outcome>>
    /\ UNCHANGED <<observers, files, call, loop_steps, idx, step, locals, history>>

\* Mutant: an exception of a hook ends the notification loop.
next_observer_abort_on_raise(i, hook_raised) ==
    IF hook_raised THEN Len(observers) + 1 ELSE i + 1

\* The next observer of a `for observer in self._observers` loop; an exception
\* of the hook is caught and logged inside the loop body.
next_observer(i, hook_raised) == i + 1

\* Whether a hook of observer o raises when it is called.
hook_raises(o) == o \in FaultyObservers

\* One turn of a _notify_* loop: the hook of observer number obs_i is called
\* with the event, and returns or raises.
notify(event) ==
    /\ obs_i <= Len(observers)
    /\ hook_calls' = Append(hook_calls,
           [pos |-> obs_i, observer |-> observers[obs_i], event |-> event])
    /\ obs_i' = next_observer(obs_i, hook_raises(observers[obs_i]))
    /\ UNCHANGED <<observers, engine_caches, files, call, pc, loop_steps, idx, step,
                   locals, results, outcome, loaded, open_calls, ext_calls,
                   cmp_calls, arg>>

Event(hook, total, result, all_results) ==
    [hook |-> hook, total_steps |-> total, result |-> result, results |-> all_results]

\* Mutant: the run-started event carries the length of the still empty result list.
start_event_len_results(steps) == Event("on_validation_start", 0, None, <<>>)

\* observer.on_validation_start(total_steps)
start_event(steps) == Event("on_validation_start", Len(steps), None, <<>>)

\* observer.on_step_complete(result)
step_event(result) == Event("on_step_complete", 0, Some(result), <<>>)

\* observer.on_validation_complete(results)
complete_event(all_results) == Event("on_validation_complete", 0, None, all_results)

\* self._notify_validation_start(len(self._test_steps))
notify_validation_start ==
    /\ pc = "notify_start"
    /\ notify(start_event(test_steps[1]))

\* Mutant: the step-completed notification is not delivered before the loop goes on.
notify_step_complete_skipped ==
    /\ pc = "notify_step"
    /\ obs_i <= Len(observers)
    /\ obs_i' = Len(observers) + 1
    /\ UNCHANGED <<observers, engine_caches, files, call, pc, loop_steps, idx, step,
                   locals, results, outcome, history>>

\* self._notify_step_complete(result), result being the one just appended
notify_step_complete ==
    /\ pc = "notify_step"
    /\ notify(step_event(results[Len(results)]))

\* self._notify_validation_complete(results)
notify_validation_complete ==
    /\ pc = "notify_complete"
    /\ notify(complete_event(results))

\* Mutant: the result is put at the front of the list.
append_result_at_front(rs, r) == <<r>> \o rs

\* results.append(result)
append_result(rs, r) == Append(rs, r)

\* `for step in self._test_steps`: the next step enters _validate_step, or the
\* loop ends and _notify_validation_complete begins.
loop_next ==
    /\ pc \in {"notify_start", "notify_step"}
    /\ obs_i > Len(observers)
    /\ LET it == IF pc = "notify_start" THEN test_steps[1] ELSE loop_steps
       IN  /\ loop_steps' = it
           /\ IF idx < Len(it)
              THEN /\ idx' = idx + 1
                   /\ step' = Some(it[idx + 1])
                   /\ pc' = "step_resolve"
                   /\ UNCHANGED obs_i
              ELSE /\ pc' = "notify_complete"
                   /\ obs_i' = 1
                   /\ UNCHANGED <<idx, step>>
    /\ UNCHANGED <<observers, engine_caches, files, call, locals, results, outcome, history>>

\* `return results`: the with statement is left and the caches are cleared.
validate_all_return ==
    /\ pc = "notify_complete"
    /\ obs_i > Len(observers)
    /\ outcome' = [kind |-> "returned", results |-> results, error |-> <<>>]
    /\ clear_caches
    /\ pc' = "idle"
    /\ UNCHANGED <<observers, files, call, loop_steps, idx, step, locals, results,
                   obs_i, history>>

(***************************************************************************)
(* _validate_step.                                                         *)
(***************************************************************************)
\* Mutant: a step whose extraction raised is extracted again.
step_returns_or_retries(r) ==
    IF pc = "extract" /\ r.match_result = "ERROR"
    THEN /\ pc' = "extract"
         /\ UNCHANGED <<engine_caches, step, locals, results, obs_i, outcome>>
    ELSE /\ step' = None
         /\ locals' = NoLocals
         /\ IF call = "validate_all"
            THEN /\ results' = append_result(results, r)
                 /\ obs_i' = 1
                 /\ pc' = "notify_step"
                 /\ UNCHANGED <<engine_caches, outcome>>
            ELSE /\ outcome' = [kind |-> "returned", results |-> <<r>>, error |-> <<>>]
                 /\ clear_caches
                 /\ pc' = "idle"
                 /\ UNCHANGED <<results, obs_i>>

\* Mutant: validate_step hands its result back without the confidence.
step_returns_unscored(r) ==
    /\ step' = None
    /\ locals' = NoLocals
    /\ IF call = "validate_all"
       THEN /\ results' = append_result(results, r)
            /\ obs_i' = 1
            /\ pc' = "notify_step"
            /\ UNCHANGED <<engine_caches, outcome>>
       ELSE /\ outcome' = [kind |-> "returned",
                           results |-> <<[r EXCEPT !.confidence_score = None]>>,
                           error |-> <<>>]
            /\ clear_caches
            /\ pc' = "idle"
            /\ UNCHANGED <<results, obs_i>>

\* _validate_step returns r: validate_all appends it and notifies the
\* observers; validate_step returns it to its caller through the with statement.
step_returns(r) ==
    /\ step' = None
    /\ locals' = NoLocals
    /\ IF call = "validate_all"
       THEN /\ results' = append_result(results, r)
            /\ obs_i' = 1
            /\ pc' = "notify_step"
            /\ UNCHANGED <<engine_caches, outcome>>
       ELSE /\ outcome' = [kind |-> "returned", results |-> <<r>>, error |-> <<>>]
            /\ clear_caches
            /\ pc' = "idle"
            /\ UNCHANGED <<results, obs_i>>

\* The three lookups: expected text, screenshot, coordinate.  An exception out
\* of the existence check is caught by the handler of _validate_step.
step_resolve ==
    /\ pc = "step_resolve"
    /\ LET s == step[1]
           expected_text == resolve_expected_text(expected_strings[1], s)
           coordinate == resolve_coordinate(coordinates[1], s)
           checked == image_exists(files, s)
       IN  IF expected_text_missing(expected_text)
           THEN step_returns(missing_expected_result(s))
           ELSE IF checked.raises # ""
           THEN step_returns(exception_result(s, expected_text,
                                              <<checked.raises, s.screen_id>>))
           ELSE IF ~checked.exists
           THEN step_returns(missing_image_result(s, expected_text))
           ELSE IF coordinate = None
           THEN step_returns(missing_coordinates_result(s, expected_text))
           ELSE /\ locals' = [locals EXCEPT !.expected_text = expected_text,
                                            !.coordinate = coordinate]
                /\ pc' = "extract"
                /\ UNCHANGED <<engine_caches, step, results, obs_i, outcome>>
    /\ UNCHANGED <<observers, files, call, loop_steps, idx, history>>

\* self._extract_text_from_region(image_path, coordinate): Image.open and crop,
\* then, if they did not raise, the extractor call
extract_text_from_region ==
    /\ pc = "extract"
    /\ LET s == step[1]
       IN  \E opened \in ImageOpenOutcomes :
              /\ open_calls' = Append(open_calls,
                     [idx |-> idx, step |-> s, image |-> s.screen_id, raises |-> opened])
              /\ IF opened # ""
                 THEN /\ step_returns(exception_result(s, locals.expected_text,
                                                       extraction_error(s, opened)))
                      /\ UNCHANGED ext_calls
                 ELSE \E out \in ExtractorOutcomes :
                         /\ ext_calls' = Append(ext_calls,
                                [idx |-> idx, step |-> s, image |-> s.screen_id,
                                 box |-> to_tuple(locals.coordinate[1]), out |-> out])
                         /\ IF out.raises # ""
                            THEN step_returns(exception_result(s, locals.expected_text,
                                                  extraction_error(s, out.raises)))
                            ELSE /\ locals' = [locals EXCEPT !.ocr_output = out.text,
                                                             !.ocr_confidence = out.confidence]
                                 /\ pc' = "compare"
                                 /\ UNCHANGED <<engine_caches, step, results, obs_i, outcome>>
    /\ UNCHANGED <<observers, files, call, loop_steps, idx, loaded, cmp_calls, arg,
                   hook_calls>>

\* self.string_matcher.match(expected_text, ocr_output) and the construction
\* of the PASS or FAIL result
string_matcher_match ==
    /\ pc = "compare"
    /\ LET s == step[1]
       IN  \E out \in ComparatorOutcomes :
              /\ cmp_calls' = Append(cmp_calls,
                     [idx |-> idx, step |-> s, expected |-> locals.expected_text,
                      actual |-> locals.ocr_output, out |-> out])
              /\ IF out.raises # ""
                 THEN step_returns(exception_result(s, locals.expected_text,
                                                    <<out.raises>>))
                 ELSE step_returns(compared_result(s, locals.expected_text,
                                       locals.ocr_output, locals.ocr_confidence,
                                       out.is_match, out.confidence))
    /\ UNCHANGED <<observers, files, call, loop_steps, idx, loaded, open_calls,
                   ext_calls, arg, hook_calls>>

Next ==
    \/ \E o \in Observers : add_observer(o)
    \/ \E o \in Observers : remove_observer(o)
    \/ validate_all
    \/ \E s \in StepPool : validate_step(s)
    \/ load_test_protocol
    \/ load_expected_strings
    \/ load_coordinates
    \/ validate_all_body
    \/ notify_validation_start
    \/ loop_next
    \/ step_resolve
    \/ extract_text_from_region
    \/ string_matcher_match
    \/ notify_step_complete
    \/ notify_validation_complete
    \/ validate_all_return

Spec == Init /\ [][Next]_vars

TypeOK ==
    /\ pc \in {"idle", "load_protocol", "load_strings", "load_coords", "loaded",
               "notify_start", "step_resolve", "extract", "compare", "notify_step",
               "notify_complete"}
    /\ call \in {"none", "validate_all", "validate_step"}
    /\ Len(observers) <= MaxObservers
    /\ Len(results) <= MaxSteps
    /\ \A i \in 1..Len(results) : results[i].match_result \in MatchResult

(***************************************************************************)
(* What the claims speak of, read off the history of the call: the steps   *)
(* the call was given, the results it produced, and the calls the          *)
(* extractor and the comparator received for each step.                    *)
(***************************************************************************)
InputSteps == IF call = "validate_all" THEN loaded.steps[1] ELSE arg
Produced == IF call = "validate_all" THEN results ELSE outcome.results
CallIdx(i) == IF call = "validate_all" THEN i ELSE 0

OpenCallsFor(i) == {k \in 1..Len(open_calls) : open_calls[k].idx = CallIdx(i)}
OpenFailedFor(i) == \E k \in OpenCallsFor(i) : open_calls[k].raises # ""
ExtCallsFor(i) == {k \in 1..Len(ext_calls) : ext_calls[k].idx = CallIdx(i)}
CmpCallsFor(i) == {k \in 1..Len(cmp_calls) : cmp_calls[k].idx = CallIdx(i)}
ExtRaisedFor(i) == \E k \in ExtCallsFor(i) : ext_calls[k].out.raises # ""
CmpRaisedFor(i) == \E k \in CmpCallsFor(i) : cmp_calls[k].out.raises # ""

\* The expected text of input step i under the loaded map ("" when there is none).
RefExpected(i) ==
    LET id == InputSteps[i].expected_string_id
    IN  IF id \in DOMAIN loaded.strings[1] THEN loaded.strings[1][id] ELSE ""

RefImageMissing(i) == InputSteps[i].screen_id \notin files

\* Looking for the screenshot of input step i raises.
RefImageUncheckable(i) == InputSteps[i].screen_id = LongScreenId

RefCoordinateMissing(i) ==
    <<InputSteps[i].step_id, InputSteps[i].screen_id, InputSteps[i].expected_string_id>>
        \notin DOMAIN loaded.coords[1]

\* The classification the per-step algorithm of the specification gives input
\* step i, from the data loaded, from how looking for the screenshot and
\* opening it ended and from what the extractor and the comparator did when
\* called for step i alone.
RefClass(i) ==
    IF RefExpected(i) = "" THEN "ERROR"
    ELSE IF RefImageUncheckable(i) THEN "ERROR"
    ELSE IF RefImageMissing(i) THEN "MISSING_IMAGE"
    ELSE IF RefCoordinateMissing(i) THEN "MISSING_COORDINATES"
    ELSE IF OpenCallsFor(i) = {} THEN "NOT_PROCESSED"
    ELSE IF OpenFailedFor(i) THEN "ERROR"
    ELSE IF ExtCallsFor(i) = {} THEN "NOT_PROCESSED"
    ELSE IF ExtRaisedFor(i) THEN "ERROR"
    ELSE IF CmpCallsFor(i) = {} THEN "NOT_PROCESSED"
    ELSE IF CmpRaisedFor(i) THEN "ERROR"
    ELSE IF \E k \in CmpCallsFor(i) : cmp_calls[k].out.is_match THEN "PASS"
    ELSE "FAIL"

MinOf(a, b) == IF a <= b THEN a ELSE b

\* C1: when validate_all has loaded a non-empty step list, the expected strings
\* and the coordinates, it returns a list with exactly one result per input step,
\* the i-th result being that of the i-th input step, whatever the extractor, the
\* comparator and the observers raised on the way.
C1_Completeness ==
    (call = "validate_all" /\ pc = "idle" /\ loaded.coords # None /\ loaded.steps[1] # <<>>)
        => /\ outcome.kind = "returned"
           /\ Len(outcome.results) = Len(loaded.steps[1])
           /\ \A i \in 1..Len(loaded.steps[1]) : outcome.results[i].step = loaded.steps[1][i]

C1_Witness ==
    /\ call = "validate_all"
    /\ outcome.kind = "returned"
    /\ Len(outcome.results) = 2
    /\ outcome.results[1].step # outcome.results[2].step
    /\ \E k \in 1..Len(ext_calls) : ext_calls[k].out.raises # ""
    /\ \E k \in 1..Len(cmp_calls) : cmp_calls[k].out.raises # ""
    /\ observers = <<"faulty", "quiet">>

\* C2: every result of validate_all carries one of the five classifications, and
\* it is PASS exactly when the comparator was called for that step with the
\* resolved expected text and the text the extractor returned, and reported a match.
C2_Classification ==
    call = "validate_all" =>
        \A i \in 1..Len(results) :
            /\ results[i].match_result \in MatchResult
            /\ results[i].match_result = "PASS" <=>
                  \E k \in CmpCallsFor(i) :
                      /\ cmp_calls[k].expected = RefExpected(i)
                      /\ \E e \in ExtCallsFor(i) :
                            /\ ext_calls[e].out.raises = ""
                            /\ cmp_calls[k].actual = ext_calls[e].out.text
                      /\ cmp_calls[k].out.raises = ""
                      /\ cmp_calls[k].out.is_match

C2_Witness ==
    /\ call = "validate_all"
    /\ outcome.kind = "returned"
    /\ Len(outcome.results) = 2
    /\ outcome.results[1].match_result = "PASS"
    /\ outcome.results[2].match_result = "FAIL"

\* C3: a step whose expected_string_id is absent from the loaded expected-strings
\* map causes no extractor call and no comparator call, in validate_all and in
\* validate_step.
C3_NoExtractionWithoutExpectedString ==
    /\ \A k \in 1..Len(ext_calls) :
          ext_calls[k].step.expected_string_id \in DOMAIN loaded.strings[1]
    /\ \A k \in 1..Len(cmp_calls) :
          cmp_calls[k].step.expected_string_id \in DOMAIN loaded.strings[1]

\* A batch has returned in which only the absent identifier kept a step from
\* extraction, while another step of the same batch was extracted.
C3_Witness ==
    /\ call = "validate_all"
    /\ outcome.kind = "returned"
    /\ \E i \in 1..Len(results) :
          /\ InputSteps[i].expected_string_id \notin DOMAIN loaded.strings[1]
          /\ ~RefImageMissing(i)
          /\ ~RefCoordinateMissing(i)
          /\ results[i].match_result = "ERROR"
    /\ ext_calls # <<>>

\* C4: a step whose expected text is non-empty and whose screenshot does not exist
\* is classified MISSING_IMAGE, whether or not the coordinate index has an entry
\* for its key, and the extractor is not called for it.
C4_MissingImagePrecedence ==
    \A i \in 1..Len(Produced) :
        (RefExpected(i) # "" /\ RefImageMissing(i))
            => /\ Produced[i].match_result = "MISSING_IMAGE"
               /\ ExtCallsFor(i) = {}

\* C5: a step whose expected text is non-empty and whose screenshot exists, but
\* whose composite key has no entry in the coordinate index, is classified
\* MISSING_COORDINATES and the extractor is not called for it.
C5_MissingCoordinates ==
    \A i \in 1..Len(Produced) :
        (RefExpected(i) # "" /\ ~RefImageMissing(i) /\ RefCoordinateMissing(i))
            => /\ Produced[i].match_result = "MISSING_COORDINATES"
               /\ ExtCallsFor(i) = {}

\* The index has an entry for another step on the same screen, none for this one.
C5_Witness ==
    \E i \in 1..Len(Produced) :
        /\ Produced[i].match_result = "MISSING_COORDINATES"
        /\ \E key \in DOMAIN loaded.coords[1] : key[2] = InputSteps[i].screen_id

\* C6: the confidence of every PASS or FAIL result is exactly the minimum of the
\* confidence the extractor returned and the confidence the comparator returned
\* for that step; it lies in [0,1] and exceeds neither.
C6_ConfidenceIsMinimum ==
    \A i \in 1..Len(Produced) :
        Produced[i].match_result \in {"PASS", "FAIL"} =>
            \E e \in ExtCallsFor(i), c \in CmpCallsFor(i) :
                /\ ext_calls[e].out.raises = ""
                /\ cmp_calls[c].out.raises = ""
                /\ Produced[i].confidence_score =
                      <<MinOf(ext_calls[e].out.confidence, cmp_calls[c].out.confidence)>>
                /\ Produced[i].confidence_score[1] <= ext_calls[e].out.confidence
                /\ Produced[i].confidence_score[1] <= cmp_calls[c].out.confidence
                /\ Produced[i].confidence_score[1] \in 0..MaxConf

\* One step with the extraction less confident than the comparison and one
\* with the comparison less confident than the extraction.
C6_Witness ==
    /\ call = "validate_all"
    /\ outcome.kind = "returned"
    /\ Len(ext_calls) = 2
    /\ Len(cmp_calls) = 2
    /\ ext_calls[1].out.confidence < cmp_calls[1].out.confidence
    /\ cmp_calls[2].out.confidence < ext_calls[2].out.confidence
    /\ results[1].match_result \in {"PASS", "FAIL"}
    /\ results[2].match_result \in {"PASS", "FAIL"}

\* C7: in validate_all, when the extractor raises for step i, step i is returned
\* as ERROR and every later step is still processed and returned with the
\* classification its own data and its own extraction and comparison give it.
C7_Isolation ==
    (call = "validate_all" /\ pc = "idle" /\ ext_calls # <<>>) =>
        /\ outcome.kind = "returned"
        /\ \A i \in 1..Len(loaded.steps[1]) :
              ExtRaisedFor(i) =>
                  /\ i <= Len(outcome.results)
                  /\ outcome.results[i].match_result = "ERROR"
                  /\ \A j \in (i + 1)..Len(loaded.steps[1]) :
                        /\ j <= Len(outcome.results)
                        /\ outcome.results[j].step = loaded.steps[1][j]
                        /\ outcome.results[j].match_result = RefClass(j)

\* The extractor raised for the first step and the second step passed.
C7_Witness ==
    /\ call = "validate_all"
    /\ outcome.kind = "returned"
    /\ Len(outcome.results) = 2
    /\ ExtRaisedFor(1)
    /\ outcome.results[1].match_result = "ERROR"
    /\ outcome.results[2].match_result = "PASS"

\* C8: when one of the three loader calls raises, validate_all raises a
\* ValidationError to its caller, returns no result list, not even a partial
\* one, and calls neither the extractor nor the comparator.
C8_LoadFailure ==
    (call = "validate_all" /\ pc = "idle" /\ loaded.coords = None) =>
        /\ outcome.kind = "raised"
        /\ outcome.error[1] = "ValidationError"
        /\ outcome.results = <<>>
        /\ results = <<>>
        /\ ext_calls = <<>>
        /\ cmp_calls = <<>>

\* The third loader call raised after the first two had succeeded.
C8_Witness ==
    /\ call = "validate_all"
    /\ pc = "idle"
    /\ loaded.steps # None
    /\ loaded.steps[1] # <<>>
    /\ loaded.strings # None
    /\ loaded.coords = None
    /\ outcome.kind = "raised"

\* The hook calls made for the registration at position p of the observer list.
HookCallsAt(p) == SelectSeq(hook_calls, LAMBDA h : h.pos = p)
EventsAt(p) == [k \in 1..Len(HookCallsAt(p)) |-> HookCallsAt(p)[k].event]

\* What one registration is to see of a batch that returned rs for n steps.
ExpectedEvents(n, rs) ==
    <<[hook |-> "on_validation_start", total_steps |-> n, result |-> <<>>, results |-> <<>>]>>
    \o [i \in 1..Len(rs) |->
          [hook |-> "on_step_complete", total_steps |-> 0, result |-> <<rs[i]>>, results |-> <<>>]]
    \o <<[hook |-> "on_validation_complete", total_steps |-> 0, result |-> <<>>, results |-> rs]>>

\* C9: in a validate_all call that loads a non-empty step list, every registered
\* observer (every entry of the observer list) sees exactly one run-started event
\* carrying the number of loaded steps, then exactly one step-completed event per
\* step, in step-list order and carrying that step's result, then exactly one
\* run-completed event, the last, carrying the result list validate_all returns.
C9_NotificationSequence ==
    (call = "validate_all" /\ pc = "idle" /\ outcome.kind = "returned") =>
        /\ Len(outcome.results) = Len(loaded.steps[1])
        /\ \A i \in 1..Len(outcome.results) : outcome.results[i].step = loaded.steps[1][i]
        /\ \A k \in 1..Len(hook_calls) :
              /\ hook_calls[k].pos \in 1..Len(observers)
              /\ hook_calls[k].observer = observers[hook_calls[k].pos]
        /\ \A p \in 1..Len(observers) :
              EventsAt(p) = ExpectedEvents(Len(loaded.steps[1]), outcome.results)

C9_Witness ==
    /\ call = "validate_all"
    /\ outcome.kind = "returned"
    /\ Len(outcome.results) = 2
    /\ Len(observers) = 2
    /\ observers[1] # observers[2]
    /\ Len(hook_calls) = 8

\* The result the per-step algorithm of the specification gives input step i.
RefResult(i) ==
    LET s == InputSteps[i]
        c == RefClass(i)
        o == CHOOSE k \in OpenCallsFor(i) : TRUE
        e == CHOOSE k \in ExtCallsFor(i) : TRUE
        m == CHOOSE k \in CmpCallsFor(i) : TRUE
    IN  [step |-> s,
         expected_text |-> RefExpected(i),
         ocr_output |-> IF c \in {"PASS", "FAIL"} THEN ext_calls[e].out.text ELSE "",
         match_result |-> c,
         confidence_score |->
             IF c \in {"PASS", "FAIL"}
             THEN <<MinOf(ext_calls[e].out.confidence, cmp_calls[m].out.confidence)>>
             ELSE <<>>,
         processing_time_ms |->
             IF c \in {"PASS", "FAIL"} \/ (c = "ERROR" /\ RefExpected(i) # "")
             THEN <<Elapsed>> ELSE <<>>,
         error_message |->
             IF c \in {"PASS", "FAIL"} THEN <<>>
             ELSE IF c = "MISSING_IMAGE" THEN <<(<<"Image not found", s.screen_id>>)>>
             ELSE IF c = "MISSING_COORDINATES"
                  THEN <<(<<"Coordinates not found for", s.step_id, s.screen_id,
                            s.expected_string_id>>)>>
             ELSE IF RefExpected(i) = ""
                  THEN <<(<<"Expected string not found", s.expected_string_id>>)>>
             ELSE IF RefImageUncheckable(i)
                  THEN <<(<<"[Errno 36] File name too long", s.screen_id>>)>>
             ELSE IF OpenFailedFor(i)
                  THEN IF open_calls[o].raises = "FileNotFoundError"
                       THEN <<(<<"Image file not found", s.screen_id>>)>>
                       ELSE <<(<<"Failed to extract text from region", open_calls[o].raises>>)>>
             ELSE IF ExtRaisedFor(i)
                  THEN IF ext_calls[e].out.raises = "FileNotFoundError"
                       THEN <<(<<"Image file not found", s.screen_id>>)>>
                       ELSE <<(<<"Failed to extract text from region", ext_calls[e].out.raises>>)>>
             ELSE <<(<<cmp_calls[m].out.raises>>)>>]

\* C10: when an observer's hook raises, the observers after it in the list still
\* receive that notification (the hook calls keep going round the whole list, in
\* list order), the run goes on to return, and the list it returns is the one
\* the data and the extractor and comparator outcomes determine.
C10_ObserverIsolation ==
    (call = "validate_all"
        /\ \E k \in 1..Len(hook_calls) : hook_calls[k].observer \in FaultyObservers) =>
        /\ \A k \in 1..Len(hook_calls) :
              hook_calls[k].pos = ((k - 1) % Len(observers)) + 1
        /\ pc \in {"notify_start", "notify_step", "notify_complete"}
              => (Len(hook_calls) % Len(observers)) = ((obs_i - 1) % Len(observers))
        /\ pc = "idle" =>
              /\ outcome.kind = "returned"
              /\ Len(outcome.results) = Len(loaded.steps[1])
              /\ \A i \in 1..Len(outcome.results) : outcome.results[i] = RefResult(i)
              /\ Len(hook_calls) = Len(observers) * (Len(loaded.steps[1]) + 2)

\* The hook of the first of two observers raised, and the run returned two results.
C10_Witness ==
    /\ call = "validate_all"
    /\ outcome.kind = "returned"
    /\ observers = <<"faulty", "quiet">>
    /\ Len(outcome.results) = 2
    /\ hook_calls[Len(hook_calls)].pos = 2

\* C11: during validate_all, when the extractor or the comparator raised for a
\* step, that step is returned as ERROR and every registered observer has had
\* its on_error hook called with that exception and that step.  (The only calls
\* of _notify_error are in the except clauses of validate_all, lines 175-177 and
\* 193-195; _validate_step catches every Exception itself, lines 283-294, so no
\* behaviour of Spec reaches them and hook_calls never holds an on_error call.)
C11_ErrorNotification ==
    (call = "validate_all" /\ pc = "idle" /\ outcome.kind = "returned") =>
        \A i \in 1..Len(loaded.steps[1]) :
            (ExtRaisedFor(i) \/ CmpRaisedFor(i)) =>
                /\ outcome.results[i].match_result = "ERROR"
                /\ \A p \in 1..Len(observers) :
                      \E k \in 1..Len(hook_calls) :
                          /\ hook_calls[k].pos = p
                          /\ hook_calls[k].event.hook = "on_error"
                          /\ hook_calls[k].event.error = outcome.results[i].error_message
                          /\ hook_calls[k].event.step = Some(loaded.steps[1][i])

\* C12: whenever no call is in progress, and when a call has just been entered,
\* the three dataset caches are empty, whether the last call returned, failed
\* during loading or failed in the body of the with statement; once a call has
\* loaded, the caches hold exactly what the loader returned in that call; and
\* every result a call returns is the one determined by the data loaded in that
\* call and by what the extractor and the comparator did in that call.
C12_CachesReleased ==
    /\ pc \in {"idle", "load_protocol"} =>
          /\ test_steps = None
          /\ expected_strings = None
          /\ coordinates = None
    /\ pc \notin {"idle", "load_protocol", "load_strings", "load_coords"} =>
          /\ loaded.coords # None
          /\ test_steps = loaded.steps
          /\ expected_strings = loaded.strings
          /\ coordinates = loaded.coords
    /\ (pc = "idle" /\ outcome.kind = "returned") =>
          /\ Len(Produced) = Len(InputSteps)
          /\ \A i \in 1..Len(Produced) : Produced[i] = RefResult(i)

\* A call that loaded a step list, a non-empty expected-text map and a
\* non-empty coordinate index has returned, and the engine holds none of them.
C12_Witness ==
    /\ pc = "idle"
    /\ outcome.kind = "returned"
    /\ loaded.steps # None
    /\ loaded.steps[1] # <<>>
    /\ DOMAIN loaded.strings[1] # {}
    /\ DOMAIN loaded.coords[1] # {}
    /\ test_steps = None
    /\ expected_strings = None
    /\ coordinates = None

(***************************************************************************)
(* get_validation_summary, a pure function of the result list it is given. *)
(* A float is the exact rational it stands for, a pair numerator and       *)
(* denominator; rounding in the last place is not modelled.  The function  *)
(* is applied under SummarySpec: call, arg and outcome hold the entry      *)
(* point, its argument and what it returned; the engine is idle throughout.*)
(***************************************************************************)
MaxSummaryLen == 3

Ratio(n, d) == [num |-> n, den |-> d]

\* The literal 0.0
ZeroRatio == Ratio(0, 1)

RECURSIVE SumSeq(_)
SumSeq(xs) == IF xs = <<>> THEN 0 ELSE xs[1] + SumSeq(Tail(xs))

\* sum(1 for r in results if r.match_result == m)
count_results(rs, m) == Cardinality({i \in 1..Len(rs) : rs[i].match_result = m})

\* Mutant: the pass rate is left as a fraction of one.
pass_rate_unscaled(passed, n) == Ratio(passed, n)

\* passed / len(results) * 100.0
pass_rate(passed, n) == Ratio(passed * 100, n)

\* sum(x for x in values) / len(values) if values else 0.0
average(values) ==
    IF values = <<>> THEN ZeroRatio ELSE Ratio(SumSeq(values), Len(values))

\* The dictionary get_validation_summary returns.
validation_summary(rs) ==
    IF rs = <<>>
    THEN [total_steps |-> 0, passed |-> 0, failed |-> 0, errors |-> 0,
          missing_images |-> 0, missing_coordinates |-> 0, pass_rate |-> ZeroRatio,
          average_confidence |-> ZeroRatio, average_processing_time_ms |-> ZeroRatio]
    ELSE LET valid_results == SelectSeq(rs, LAMBDA r : r.confidence_score # None)
             timed_results == SelectSeq(rs, LAMBDA r : r.processing_time_ms # None)
         IN  [total_steps |-> Len(rs),
              passed |-> count_results(rs, "PASS"),
              failed |-> count_results(rs, "FAIL"),
              errors |-> count_results(rs, "ERROR"),
              missing_images |-> count_results(rs, "MISSING_IMAGE"),
              missing_coordinates |-> count_results(rs, "MISSING_COORDINATES"),
              pass_rate |-> pass_rate(count_results(rs, "PASS"), Len(rs)),
              average_confidence |->
                  average([k \in 1..Len(valid_results) |-> valid_results[k].confidence_score[1]]),
              average_processing_time_ms |->
                  average([k \in 1..Len(timed_results) |-> timed_results[k].processing_time_ms[1]])]

\* Results a caller may pass: any classification, without confidence and time
\* or with both (the time a number of milliseconds).
SummaryResults ==
    {ValidationResult(TestStep("S1", "A", "g"), "", "", m, ct[1], ct[2], None) :
        m \in MatchResult,
        ct \in {<<None, None>>, <<Some(0), Some(1)>>, <<Some(MaxConf), Some(2)>>}}

SummaryInputs == SeqsUpTo(SummaryResults, MaxSummaryLen)

\* The engine as constructed, with the argument of the function to apply.
PureInit(inputs) ==
    /\ observers = <<>>
    /\ test_steps = None
    /\ expected_strings = None
    /\ coordinates = None
    /\ files = {}
    /\ call = "none"
    /\ pc = "idle"
    /\ loop_steps = <<>>
    /\ idx = 0
    /\ step = None
    /\ locals = NoLocals
    /\ results = <<>>
    /\ obs_i = 1
    /\ outcome = NoOutcome
    /\ loaded = NoLoaded
    /\ open_calls = <<>>
    /\ ext_calls = <<>>
    /\ cmp_calls = <<>>
    /\ arg \in {Some(x) : x \in inputs}
    /\ hook_calls = <<>>

\* The function named entry is applied to the argument and gives out.
PureCall(entry, out) ==
    /\ pc = "idle"
    /\ call = "none"
    /\ call' = entry
    /\ outcome' = out
    /\ UNCHANGED <<observers, engine_caches, files, pc, loop_steps, idx, step, locals,
                   results, obs_i, loaded, open_calls, ext_calls, cmp_calls, arg,
                   hook_calls>>

Returned(v) == [kind |-> "returned", value |-> v]
Raised(e) == [kind |-> "raised", value |-> e]

SummaryInit == PureInit(SummaryInputs)

\* engine.get_validation_summary(results)
get_validation_summary ==
    PureCall("get_validation_summary", Returned(validation_summary(arg[1])))

SummaryNext == get_validation_summary

SummarySpec == SummaryInit /\ [][SummaryNext]_vars

\* C13: for a result list of n > 0 results of which p are PASS the summary has
\* total_steps = n and pass_rate = 100*p/n; for the empty list the call returns
\* and every field of the summary is zero.
C13_SummaryPassRate ==
    call = "get_validation_summary" =>
        LET rs == arg[1]
            n == Len(rs)
            p == Cardinality({i \in 1..n : rs[i].match_result = "PASS"})
            s == outcome.value
        IN  /\ outcome.kind = "returned"
            /\ n > 0 => /\ s.total_steps = n
                        /\ s.pass_rate.den # 0
                        /\ s.pass_rate.num * n = 100 * p * s.pass_rate.den
            /\ n = 0 => /\ s.total_steps = 0
                        /\ s.passed = 0
                        /\ s.failed = 0
                        /\ s.errors = 0
                        /\ s.missing_images = 0
                        /\ s.missing_coordinates = 0
                        /\ s.pass_rate.num = 0
                        /\ s.average_confidence.num = 0
                        /\ s.average_processing_time_ms.num = 0

\* A list of three results, one of them PASS, has been summarised.
C13_Witness ==
    /\ call = "get_validation_summary"
    /\ Len(arg[1]) = 3
    /\ outcome.value.passed = 1
    /\ outcome.value.failed = 1
    /\ outcome.value.errors = 1

\* The empty list has been summarised.
C13_WitnessEmpty ==
    /\ call = "get_validation_summary"
    /\ arg[1] = <<>>
    /\ outcome.kind = "returned"

(***************************************************************************)
(* CSVDataLoader.load_coordinates and JSONDataLoader.load_coordinates      *)
(* (src/src/data_loaders.py), pure functions of the table they read.  A    *)
(* table is the list of its rows, the file being present with its header   *)
(* (CSV) or holding an array of objects (JSON); a cell is the sequence of  *)
(* its characters, or None when the row has no such cell.                  *)
(***************************************************************************)
MaxRows == 3

\* The decimal digits int() reads (Unicode category Nd), one row per script,
\* each from its zero to its nine.  A character with no TLA+ string literal
\* is written as its Python escape.
Digits ==
    <<<<"0", "1", "2", "3", "4", "5", "6", "7", "8", "9">>,
      <<"\\u0660", "\\u0661", "\\u0662", "\\u0663", "\\u0664", "\\u0665", "\\u0666", "\\u0667", "\\u0668", "\\u0669">>,
      <<"\\u06f0", "\\u06f1", "\\u06f2", "\\u06f3", "\\u06f4", "\\u06f5", "\\u06f6", "\\u06f7", "\\u06f8", "\\u06f9">>,
      <<"\\u07c0", "\\u07c1", "\\u07c2", "\\u07c3", "\\u07c4", "\\u07c5", "\\u07c6", "\\u07c7", "\\u07c8", "\\u07c9">>,
      <<"\\u0966", "\\u0967", "\\u0968", "\\u0969", "\\u096a", "\\u096b", "\\u096c", "\\u096d", "\\u096e", "\\u096f">>,
      <<"\\u09e6", "\\u09e7", "\\u09e8", "\\u09e9", "\\u09ea", "\\u09eb", "\\u09ec", "\\u09ed", "\\u09ee", "\\u09ef">>,
      <<"\\u0a66", "\\u0a67", "\\u0a68", "\\u0a69", "\\u0a6a", "\\u0a6b", "\\u0a6c", "\\u0a6d", "\\u0a6e", "\\u0a6f">>,
      <<"\\u0ae6", "\\u0ae7", "\\u0ae8", "\\u0ae9", "\\u0aea", "\\u0aeb", "\\u0aec", "\\u0aed", "\\u0aee", "\\u0aef">>,
      <<"\\u0b66", "\\u0b67", "\\u0b68", "\\u0b69", "\\u0b6a", "\\u0b6b", "\\u0b6c", "\\u0b6d", "\\u0b6e", "\\u0b6f">>,
      <<"\\u0be6", "\\u0be7", "\\u0be8", "\\u0be9", "\\u0bea", "\\u0beb", "\\u0bec", "\\u0bed", "\\u0bee", "\\u0bef">>,
      <<"\\u0c66", "\\u0c67", "\\u0c68", "\\u0c69", "\\u0c6a", "\\u0c6b", "\\u0c6c", "\\u0c6d", "\\u0c6e", "\\u0c6f">>,
      <<"\\u0ce6", "\\u0ce7", "\\u0ce8", "\\u0ce9", "\\u0cea", "\\u0ceb", "\\u0cec", "\\u0ced", "\\u0cee", "\\u0cef">>,
      <<"\\u0d66", "\\u0d67", "\\u0d68", "\\u0d69", "\\u0d6a", "\\u0d6b", "\\u0d6c", "\\u0d6d", "\\u0d6e", "\\u0d6f">>,
      <<"\\u0de6", "\\u0de7", "\\u0de8", "\\u0de9", "\\u0dea", "\\u0deb", "\\u0dec", "\\u0ded", "\\u0dee", "\\u0def">>,
      <<"\\u0e50", "\\u0e51", "\\u0e52", "\\u0e53", "\\u0e54", "\\u0e55", "\\u0e56", "\\u0e57", "\\u0e58", "\\u0e59">>,
      <<"\\u0ed0", "\\u0ed1", "\\u0ed2", "\\u0ed3", "\\u0ed4", "\\u0ed5", "\\u0ed6", "\\u0ed7", "\\u0ed8", "\\u0ed9">>,
      <<"\\u0f20", "\\u0f21", "\\u0f22", "\\u0f23", "\\u0f24", "\\u0f25", "\\u0f26", "\\u0f27", "\\u0f28", "\\u0f29">>,
      <<"\\u1040", "\\u1041", "\\u1042", "\\u1043", "\\u1044", "\\u1045", "\\u1046", "\\u1047", "\\u1048", "\\u1049">>,
      <<"\\u1090", "\\u1091", "\\u1092", "\\u1093", "\\u1094", "\\u1095", "\\u1096", "\\u1097", "\\u1098", "\\u1099">>,
      <<"\\u17e0", "\\u17e1", "\\u17e2", "\\u17e3", "\\u17e4", "\\u17e5", "\\u17e6", "\\u17e7", "\\u17e8", "\\u17e9">>,
      <<"\\u1810", "\\u1811", "\\u1812", "\\u1813", "\\u1814", "\\u1815", "\\u1816", "\\u1817", "\\u1818", "\\u1819">>,
      <<"\\u1946", "\\u1947", "\\u1948", "\\u1949", "\\u194a", "\\u194b", "\\u194c", "\\u194d", "\\u194e", "\\u194f">>,
      <<"\\u19d0", "\\u19d1", "\\u19d2", "\\u19d3", "\\u19d4", "\\u19d5", "\\u19d6", "\\u19d7", "\\u19d8", "\\u19d9">>,
      <<"\\u1a80", "\\u1a81", "\\u1a82", "\\u1a83", "\\u1a84", "\\u1a85", "\\u1a86", "\\u1a87", "\\u1a88", "\\u1a89">>,
      <<"\\u1a90", "\\u1a91", "\\u1a92", "\\u1a93", "\\u1a94", "\\u1a95", "\\u1a96", "\\u1a97", "\\u1a98", "\\u1a99">>,
      <<"\\u1b50", "\\u1b51", "\\u1b52", "\\u1b53", "\\u1b54", "\\u1b55", "\\u1b56", "\\u1b57", "\\u1b58", "\\u1b59">>,
      <<"\\u1bb0", "\\u1bb1", "\\u1bb2", "\\u1bb3", "\\u1bb4", "\\u1bb5", "\\u1bb6", "\\u1bb7", "\\u1bb8", "\\u1bb9">>,
      <<"\\u1c40", "\\u1c41", "\\u1c42", "\\u1c43", "\\u1c44", "\\u1c45", "\\u1c46", "\\u1c47", "\\u1c48", "\\u1c49">>,
      <<"\\u1c50", "\\u1c51", "\\u1c52", "\\u1c53", "\\u1c54", "\\u1c55", "\\u1c56", "\\u1c57", "\\u1c58", "\\u1c59">>,
      <<"\\ua620", "\\ua621", "\\ua622", "\\ua623", "\\ua624", "\\ua625", "\\ua626", "\\ua627", "\\ua628", "\\ua629">>,
      <<"\\ua8d0", "\\ua8d1", "\\ua8d2", "\\ua8d3", "\\ua8d4", "\\ua8d5", "\\ua8d6", "\\ua8d7", "\\ua8d8", "\\ua8d9">>,
      <<"\\ua900", "\\ua901", "\\ua902", "\\ua903", "\\ua904", "\\ua905", "\\ua906", "\\ua907", "\\ua908", "\\ua909">>,
      <<"\\ua9d0", "\\ua9d1", "\\ua9d2", "\\ua9d3", "\\ua9d4", "\\ua9d5", "\\ua9d6", "\\ua9d7", "\\ua9d8", "\\ua9d9">>,
      <<"\\ua9f0", "\\ua9f1", "\\ua9f2", "\\ua9f3", "\\ua9f4", "\\ua9f5", "\\ua9f6", "\\ua9f7", "\\ua9f8", "\\ua9f9">>,
      <<"\\uaa50", "\\uaa51", "\\uaa52", "\\uaa53", "\\uaa54", "\\uaa55", "\\uaa56", "\\uaa57", "\\uaa58", "\\uaa59">>,
      <<"\\uabf0", "\\uabf1", "\\uabf2", "\\uabf3", "\\uabf4", "\\uabf5", "\\uabf6", "\\uabf7", "\\uabf8", "\\uabf9">>,
      <<"\\uff10", "\\uff11", "\\uff12", "\\uff13", "\\uff14", "\\uff15", "\\uff16", "\\uff17", "\\uff18", "\\uff19">>,
      <<"\\U000104a0", "\\U000104a1", "\\U000104a2", "\\U000104a3", "\\U000104a4", "\\U000104a5", "\\U000104a6", "\\U000104a7", "\\U000104a8", "\\U000104a9">>,
      <<"\\U00010d30", "\\U00010d31", "\\U00010d32", "\\U00010d33", "\\U00010d34", "\\U00010d35", "\\U00010d36", "\\U00010d37", "\\U00010d38", "\\U00010d39">>,
      <<"\\U00011066", "\\U00011067", "\\U00011068", "\\U00011069", "\\U0001106a", "\\U0001106b", "\\U0001106c", "\\U0001106d", "\\U0001106e", "\\U0001106f">>,
      <<"\\U000110f0", "\\U000110f1", "\\U000110f2", "\\U000110f3", "\\U000110f4", "\\U000110f5", "\\U000110f6", "\\U000110f7", "\\U000110f8", "\\U000110f9">>,
      <<"\\U00011136", "\\U00011137", "\\U00011138", "\\U00011139", "\\U0001113a", "\\U0001113b", "\\U0001113c", "\\U0001113d", "\\U0001113e", "\\U0001113f">>,
      <<"\\U000111d0", "\\U000111d1", "\\U000111d2", "\\U000111d3", "\\U000111d4", "\\U000111d5", "\\U000111d6", "\\U000111d7", "\\U000111d8", "\\U000111d9">>,
      <<"\\U000112f0", "\\U000112f1", "\\U000112f2", "\\U000112f3", "\\U000112f4", "\\U000112f5", "\\U000112f6", "\\U000112f7", "\\U000112f8", "\\U000112f9">>,
      <<"\\U00011450", "\\U00011451", "\\U00011452", "\\U00011453", "\\U00011454", "\\U00011455", "\\U00011456", "\\U00011457", "\\U00011458", "\\U00011459">>,
      <<"\\U000114d0", "\\U000114d1", "\\U000114d2", "\\U000114d3", "\\U000114d4", "\\U000114d5", "\\U000114d6", "\\U000114d7", "\\U000114d8", "\\U000114d9">>,
      <<"\\U00011650", "\\U00011651", "\\U00011652", "\\U00011653", "\\U00011654", "\\U00011655", "\\U00011656", "\\U00011657", "\\U00011658", "\\U00011659">>,
      <<"\\U000116c0", "\\U000116c1", "\\U000116c2", "\\U000116c3", "\\U000116c4", "\\U000116c5", "\\U000116c6", "\\U000116c7", "\\U000116c8", "\\U000116c9">>,
      <<"\\U00011730", "\\U00011731", "\\U00011732", "\\U00011733", "\\U00011734", "\\U00011735", "\\U00011736", "\\U00011737", "\\U00011738", "\\U00011739">>,
      <<"\\U000118e0", "\\U000118e1", "\\U000118e2", "\\U000118e3", "\\U000118e4", "\\U000118e5", "\\U000118e6", "\\U000118e7", "\\U000118e8", "\\U000118e9">>,
      <<"\\U00011950", "\\U00011951", "\\U00011952", "\\U00011953", "\\U00011954", "\\U00011955", "\\U00011956", "\\U00011957", "\\U00011958", "\\U00011959">>,
      <<"\\U00011c50", "\\U00011c51", "\\U00011c52", "\\U00011c53", "\\U00011c54", "\\U00011c55", "\\U00011c56", "\\U00011c57", "\\U00011c58", "\\U00011c59">>,
      <<"\\U00011d50", "\\U00011d51", "\\U00011d52", "\\U00011d53", "\\U00011d54", "\\U00011d55", "\\U00011d56", "\\U00011d57", "\\U00011d58", "\\U00011d59">>,
      <<"\\U00011da0", "\\U00011da1", "\\U00011da2", "\\U00011da3", "\\U00011da4", "\\U00011da5", "\\U00011da6", "\\U00011da7", "\\U00011da8", "\\U00011da9">>,
      <<"\\U00016a60", "\\U00016a61", "\\U00016a62", "\\U00016a63", "\\U00016a64", "\\U00016a65", "\\U00016a66", "\\U00016a67", "\\U00016a68", "\\U00016a69">>,
      <<"\\U00016ac0", "\\U00016ac1", "\\U00016ac2", "\\U00016ac3", "\\U00016ac4", "\\U00016ac5", "\\U00016ac6", "\\U00016ac7", "\\U00016ac8", "\\U00016ac9">>,
      <<"\\U00016b50", "\\U00016b51", "\\U00016b52", "\\U00016b53", "\\U00016b54", "\\U00016b55", "\\U00016b56", "\\U00016b57", "\\U00016b58", "\\U00016b59">>,
      <<"\\U0001d7ce", "\\U0001d7cf", "\\U0001d7d0", "\\U0001d7d1", "\\U0001d7d2", "\\U0001d7d3", "\\U0001d7d4", "\\U0001d7d5", "\\U0001d7d6", "\\U0001d7d7">>,
      <<"\\U0001d7d8", "\\U0001d7d9", "\\U0001d7da", "\\U0001d7db", "\\U0001d7dc", "\\U0001d7dd", "\\U0001d7de", "\\U0001d7df", "\\U0001d7e0", "\\U0001d7e1">>,
      <<"\\U0001d7e2", "\\U0001d7e3", "\\U0001d7e4", "\\U0001d7e5", "\\U0001d7e6", "\\U0001d7e7", "\\U0001d7e8", "\\U0001d7e9", "\\U0001d7ea", "\\U0001d7eb">>,
      <<"\\U0001d7ec", "\\U0001d7ed", "\\U0001d7ee", "\\U0001d7ef", "\\U0001d7f0", "\\U0001d7f1", "\\U0001d7f2", "\\U0001d7f3", "\\U0001d7f4", "\\U0001d7f5">>,
      <<"\\U0001d7f6", "\\U0001d7f7", "\\U0001d7f8", "\\U0001d7f9", "\\U0001d7fa", "\\U0001d7fb", "\\U0001d7fc", "\\U0001d7fd", "\\U0001d7fe", "\\U0001d7ff">>,
      <<"\\U0001e140", "\\U0001e141", "\\U0001e142", "\\U0001e143", "\\U0001e144", "\\U0001e145", "\\U0001e146", "\\U0001e147", "\\U0001e148", "\\U0001e149">>,
      <<"\\U0001e2f0", "\\U0001e2f1", "\\U0001e2f2", "\\U0001e2f3", "\\U0001e2f4", "\\U0001e2f5", "\\U0001e2f6", "\\U0001e2f7", "\\U0001e2f8", "\\U0001e2f9">>,
      <<"\\U0001e950", "\\U0001e951", "\\U0001e952", "\\U0001e953", "\\U0001e954", "\\U0001e955", "\\U0001e956", "\\U0001e957", "\\U0001e958", "\\U0001e959">>,
      <<"\\U0001fbf0", "\\U0001fbf1", "\\U0001fbf2", "\\U0001fbf3", "\\U0001fbf4", "\\U0001fbf5", "\\U0001fbf6", "\\U0001fbf7", "\\U0001fbf8", "\\U0001fbf9">>>>
DigitSet == {Digits[r][i] : r \in 1..Len(Digits), i \in 1..Len(Digits[1])}
DigitValue(ch) ==
    (CHOOSE i \in 1..Len(Digits[1]) : \E r \in 1..Len(Digits) : Digits[r][i] = ch) - 1

\* The characters str.strip() removes (those str.isspace() holds of).
Whitespace ==
    {"\t", "\n", "\\x0b", "\f", "\r", "\\x1c", "\\x1d", "\\x1e", "\\x1f", " ",
     "\\x85", "\\xa0", "\\u1680", "\\u2000", "\\u2001", "\\u2002", "\\u2003",
     "\\u2004", "\\u2005", "\\u2006", "\\u2007", "\\u2008", "\\u2009",
     "\\u200a", "\\u2028", "\\u2029", "\\u202f", "\\u205f", "\\u3000"}

\* The characters int() skips around a number: the file, group, record and
\* unit separators are whitespace to str.strip() but not to int().
IntWhitespace == Whitespace \ {"\\x1c", "\\x1d", "\\x1e", "\\x1f"}

RECURSIVE lstrip(_)
lstrip(cs) == IF cs # <<>> /\ cs[1] \in Whitespace THEN lstrip(Tail(cs)) ELSE cs

RECURSIVE rstrip(_)
rstrip(cs) ==
    IF cs # <<>> /\ cs[Len(cs)] \in Whitespace
    THEN rstrip(SubSeq(cs, 1, Len(cs) - 1))
    ELSE cs

\* str.strip()
strip(cs) == rstrip(lstrip(cs))

RECURSIVE digits_value(_)
digits_value(ds) ==
    IF ds = <<>> THEN 0
    ELSE digits_value(SubSeq(ds, 1, Len(ds) - 1)) * 10 + DigitValue(ds[Len(ds)])

\* int(text): surrounding whitespace, an optional ASCII sign, then decimal
\* digits of any script with single underscores allowed between them; None
\* stands for ValueError
parse_int(cs) ==
    LET kept == {i \in 1..Len(cs) : cs[i] \notin IntWhitespace}
        first == CHOOSE i \in kept : \A j \in kept : i <= j
        last == CHOOSE i \in kept : \A j \in kept : j <= i
        s == IF kept = {} THEN <<>> ELSE SubSeq(cs, first, last)
        signed == s # <<>> /\ s[1] \in {"-", "+"}
        ds == IF signed THEN Tail(s) ELSE s
        grouped ==
            /\ ds # <<>>
            /\ \A i \in 1..Len(ds) : ds[i] \in DigitSet \cup {"_"}
            /\ ds[1] # "_" /\ ds[Len(ds)] # "_"
            /\ \A i \in 1..(Len(ds) - 1) : ~(ds[i] = "_" /\ ds[i + 1] = "_")
        digits == SelectSeq(ds, LAMBDA ch : ch # "_")
    IN  IF ~grouped THEN None
        ELSE Some(IF signed /\ s[1] = "-" THEN 0 - digits_value(digits)
                  ELSE digits_value(digits))

\* A Python value that is not a string, as json.load gives for a field: a
\* float (the double num/den, den a power of two), an int, a bool (num 1 for
\* True, 0 for False) or one of the kinds below.
PythonValue(kind, num, den) == [kind |-> kind, num |-> num, den |-> den]

\* int(value) of such a value: a float is truncated towards zero, True is 1
\* and False is 0; None, a list and a dict raise TypeError, nan raises
\* ValueError and inf OverflowError, each of which skips the row (None here).
literal_int(v) ==
    IF v.kind \in {"int", "bool"} THEN Some(v.num)
    ELSE IF v.kind = "float"
    THEN Some(IF v.num >= 0 THEN v.num \div v.den ELSE 0 - ((0 - v.num) \div v.den))
    ELSE None

\* int(row[field]): of the text of the cell, or of the value the JSON file
\* holds for the field when that is not a string
cell_int(row, field) ==
    IF \E l \in row.literals : l.field = field
    THEN literal_int((CHOOSE l \in row.literals : l.field = field).value)
    ELSE parse_int(row[field][1])

\* A row: its text cells and, for a JSON file, the coordinate fields that
\* hold a value other than a string, each with that value (its text cell is
\* then not read).  A CSV file has text cells only.
Row(key, box) ==
    [step_id |-> key, screen_id |-> Some(<<"A">>), expected_string_id |-> Some(<<"g">>),
     left |-> box[1], top |-> box[2], right |-> box[3], bottom |-> box[4],
     literals |-> {}]

RowFields(row) ==
    <<row.step_id, row.screen_id, row.expected_string_id,
      row.left, row.top, row.right, row.bottom>>

\* The step id cells of the rows: two spellings of one id, another id, a blank.
RowKeys ==
    {Some(<<"S", "1">>), Some(<<"\t", "\\x1c", "S", "1", "\\xa0", " ">>),
     Some(<<"S", "2">>), Some(<<" ", "\\x0b">>)}

\* Boxes a loader accepts.
GoodBoxes ==
    {<<Some(<<"0">>), Some(<<"0">>), Some(<<"1", "0">>), Some(<<"5">>)>>,
     <<Some(<<" ", "\\x0b", "1">>), Some(<<"2", "\n", "\\xa0">>), Some(<<"\\u0663">>),
       Some(<<"1", "_", "\\uff10">>)>>}

\* Boxes a loader skips: left >= right, a negative value, not a number, a
\* number after a separator that only str.strip() removes, no cell.
BadBoxes ==
    {<<Some(<<"5">>), Some(<<"0">>), Some(<<"5">>), Some(<<"9">>)>>,
     <<Some(<<"-", "1">>), Some(<<"0">>), Some(<<"5">>), Some(<<"5">>)>>,
     <<Some(<<"x">>), Some(<<"0">>), Some(<<"5">>), Some(<<"5">>)>>,
     <<Some(<<"\\x1c", "0">>), Some(<<"0">>), Some(<<"5">>), Some(<<"5">>)>>,
     <<None, Some(<<"0">>), Some(<<"5">>), Some(<<"5">>)>>}

\* Rows of a JSON file whose left is 1.5, -0.5, true, null or Infinity.
LiteralRows ==
    {[Row(Some(<<"S", "1">>), <<Some(<<>>), Some(<<"0">>), Some(<<"5">>), Some(<<"5">>)>>)
         EXCEPT !.literals = {[field |-> "left", value |-> v]}] :
     v \in {PythonValue("float", 3, 2), PythonValue("float", 0 - 1, 2), PythonValue("bool", 1, 1),
            PythonValue("null", 0, 1), PythonValue("inf", 0, 1)}}

RowPool == {Row(k, b) : k \in RowKeys, b \in GoodBoxes \cup BadBoxes} \cup LiteralRows
Tables == SeqsUpTo(RowPool, MaxRows)

\* The four int() conversions, the bounds check and the sign check; None when
\* the row is skipped.
row_coordinate(row) ==
    LET left == cell_int(row, "left")
        top == cell_int(row, "top")
        right == cell_int(row, "right")
        bottom == cell_int(row, "bottom")
    IN  IF None \in {left, top, right, bottom} THEN None
        ELSE IF left[1] >= right[1] \/ top[1] >= bottom[1] THEN None
        ELSE IF \E v \in {left[1], top[1], right[1], bottom[1]} : v < 0 THEN None
        ELSE Some(Coordinate(left[1], top[1], right[1], bottom[1]))

\* (row['StepID'].strip(), row['ScreenID'].strip(), row['ExpectedStringID'].strip())
row_key(row) ==
    <<strip(row.step_id[1]), strip(row.screen_id[1]), strip(row.expected_string_id[1])>>

\* One turn of the CSV loop: None when the row is skipped, else key and box.
\* A row without a cell raises inside the loop body and is skipped; a row with
\* a blank cell is skipped by the required-data check.
csv_row_entry(row) ==
    IF \E i \in 1..7 : RowFields(row)[i] = None THEN None
    ELSE IF \E i \in 1..7 : strip(RowFields(row)[i][1]) = <<>> THEN None
    ELSE IF row_coordinate(row) = None THEN None
    ELSE Some([key |-> row_key(row), coordinate |-> row_coordinate(row)[1]])

\* One turn of the JSON loop: only the presence of the fields is required.
json_row_entry(row) ==
    IF \E i \in 1..7 : RowFields(row)[i] = None THEN None
    ELSE IF row_coordinate(row) = None THEN None
    ELSE Some([key |-> row_key(row), coordinate |-> row_coordinate(row)[1]])

\* coordinates[key] = coordinate
store_coordinate(index, key, coordinate) ==
    [k \in DOMAIN index \cup {key} |-> IF k = key THEN coordinate ELSE index[k]]

RECURSIVE fold_entries(_, _)
fold_entries(entries, index) ==
    IF entries = <<>> THEN index
    ELSE fold_entries(Tail(entries),
             IF entries[1] = None THEN index
             ELSE store_coordinate(index, entries[1][1].key, entries[1][1].coordinate))

\* `if not coordinates: raise DataLoadError(...)`, else `return coordinates`
loader_result(index) ==
    IF DOMAIN index = {}
    THEN Raised(<<"DataLoadError", "No valid coordinates found in file">>)
    ELSE Returned(index)

csv_coordinates(rows) ==
    loader_result(fold_entries([i \in 1..Len(rows) |-> csv_row_entry(rows[i])], <<>>))

json_coordinates(rows) ==
    loader_result(fold_entries([i \in 1..Len(rows) |-> json_row_entry(rows[i])], <<>>))

LoaderInit == PureInit(Tables)

\* CSVDataLoader().load_coordinates(path), of a table of text cells
csv_load_coordinates ==
    /\ \A i \in 1..Len(arg[1]) : arg[1][i].literals = {}
    /\ PureCall("csv_load_coordinates", csv_coordinates(arg[1]))

\* JSONDataLoader().load_coordinates(path)
json_load_coordinates == PureCall("json_load_coordinates", json_coordinates(arg[1]))

LoaderNext == csv_load_coordinates \/ json_load_coordinates

LoaderSpec == LoaderInit /\ [][LoaderNext]_vars

\* Rows with every cell present, no blank cell and an accepted box.
ValidRows == {Row(k, b) : k \in {c \in RowKeys : strip(c[1]) # <<>>}, b \in GoodBoxes}

\* C14: when the table read by load_coordinates (CSV or JSON) has two valid rows
\* with the same (step id, screen id, string id) key, the load does not fail, the
\* index has an entry for that key, and its box is the box of the last valid row
\* with that key.
C14_DuplicateKeyLastWins ==
    call \in {"csv_load_coordinates", "json_load_coordinates"} =>
        LET rows == arg[1]
        IN  \A i, j \in 1..Len(rows) :
                (/\ i < j
                 /\ rows[i] \in ValidRows
                 /\ rows[j] \in ValidRows
                 /\ row_key(rows[i]) = row_key(rows[j])
                 /\ \A k \in (j + 1)..Len(rows) :
                       ~(rows[k] \in ValidRows /\ row_key(rows[k]) = row_key(rows[j])))
                => /\ outcome.kind = "returned"
                   /\ row_key(rows[j]) \in DOMAIN outcome.value
                   /\ outcome.value[row_key(rows[j])] = row_coordinate(rows[j])[1]

(***************************************************************************)
(* The default comparator, StringMatcherFactory.create_default_matcher     *)
(* (src/src/matchers.py): a CompositeMatcher over an ExactMatcher, a       *)
(* NormalizedMatcher with threshold 0.9 and a FuzzyMatcher with threshold  *)
(* 0.8, require_all False.  Similarities and confidences are counted in    *)
(* twentieths: 20 is 1.0, 18 is 0.9, 16 is 0.8.  A pair of strings is      *)
(* given by what the children compute from it: whether the cleaned strings *)
(* are equal, and the similarity ratio of the normalized and of the        *)
(* cleaned strings.                                                        *)
(***************************************************************************)
NormalizedThreshold == 18
FuzzyThreshold == 16
SimilarityLevels == 0..20

\* Equal cleaned strings have similarity ratio 1.0 under both children.
StringPairs ==
    {[equal |-> FALSE, normalized |-> n, cleaned |-> f] :
        n \in SimilarityLevels, f \in SimilarityLevels}
    \cup {[equal |-> TRUE, normalized |-> 20, cleaned |-> 20]}

\* ExactMatcher.match
exact_match(pair) == <<pair.equal, IF pair.equal THEN 20 ELSE 0>>

\* NormalizedMatcher.match
normalized_match(pair) == <<pair.normalized >= NormalizedThreshold, pair.normalized>>

\* FuzzyMatcher.match
fuzzy_match(pair) == <<pair.cleaned >= FuzzyThreshold, pair.cleaned>>

\* The matchers list of create_default_matcher applied to one pair.
default_children(pair) == <<exact_match(pair), normalized_match(pair), fuzzy_match(pair)>>

MaxOfSeq(xs) == CHOOSE m \in {xs[i] : i \in 1..Len(xs)} : \A i \in 1..Len(xs) : xs[i] <= m
MinOfSeq(xs) == CHOOSE m \in {xs[i] : i \in 1..Len(xs)} : \A i \in 1..Len(xs) : m <= xs[i]

\* Mutant: the confidences of all children are taken.
all_confidences(child_results) ==
    [i \in 1..Len(child_results) |-> child_results[i][2]]

\* [result[1] for result in results if result[0]]
passing_confidences(child_results) ==
    LET passing == SelectSeq(child_results, LAMBDA r : r[1])
    IN  [i \in 1..Len(passing) |-> passing[i][2]]

\* Mutant: when no child matched, the best similarity is reported.
composite_match_best_similarity(child_results, require_all) ==
    LET overall_match == \E i \in 1..Len(child_results) : child_results[i][1]
        confidences == passing_confidences(child_results)
    IN  <<overall_match,
          IF confidences # <<>> THEN MaxOfSeq(confidences)
          ELSE MaxOfSeq(all_confidences(child_results))>>

\* CompositeMatcher.match on the results of its children
composite_match(child_results, require_all) ==
    IF require_all
    THEN LET overall_match == \A i \in 1..Len(child_results) : child_results[i][1]
         IN  <<overall_match,
               IF overall_match THEN MinOfSeq(all_confidences(child_results)) ELSE 0>>
    ELSE LET overall_match == \E i \in 1..Len(child_results) : child_results[i][1]
             confidences == passing_confidences(child_results)
         IN  <<overall_match, IF confidences # <<>> THEN MaxOfSeq(confidences) ELSE 0>>

MatcherInit == PureInit(StringPairs)

\* create_default_matcher().match(expected, actual)
default_matcher_match ==
    PureCall("default_matcher_match",
             Returned(composite_match(default_children(arg[1]), FALSE)))

MatcherNext == default_matcher_match

MatcherSpec == MatcherInit /\ [][MatcherNext]_vars

\* C15: the default comparator reports a match exactly when at least one of its
\* three children reports a match, and its confidence is the greatest confidence
\* among the children that matched, or 0 when none matched; the confidence of a
\* child that did not match never shows.
C15_CompositeAnyMax ==
    call = "default_matcher_match" =>
        LET children == default_children(arg[1])
            matched == {i \in 1..3 : children[i][1]}
            out == outcome.value
        IN  /\ outcome.kind = "returned"
            /\ out[1] <=> matched # {}
            /\ matched = {} => out[2] = 0
            /\ matched # {} =>
                  /\ \E i \in matched : out[2] = children[i][2]
                  /\ \A i \in matched : children[i][2] <= out[2]

\* Only the fuzzy child matched, and the normalized child, which did not, was
\* the more confident of the two.
C15_Witness ==
    /\ call = "default_matcher_match"
    /\ ~arg[1].equal
    /\ arg[1].normalized < NormalizedThreshold
    /\ arg[1].cleaned >= FuzzyThreshold
    /\ arg[1].normalized > arg[1].cleaned
    /\ outcome.value = <<TRUE, arg[1].cleaned>>

\* No child matched although two of them report a positive similarity.
C15_WitnessNone ==
    /\ call = "default_matcher_match"
    /\ arg[1].normalized > 0
    /\ arg[1].cleaned > 0
    /\ outcome.value = <<FALSE, 0>>

\* C16: when the extractor raises for a step whose expected text, image and
\* coordinates were resolved, the result of the step is ERROR, carries an elapsed
\* time, the resolved expected text, an empty extracted text and no confidence,
\* its error message contains the message of the exception the extractor raised,
\* and the comparator is not called for the step.  (An element of
\* ExtractorErrors is the message of the exception raised; "FileNotFoundError"
\* is that of an exception of class FileNotFoundError, which the except clause at
\* lines 326-327 replaces by "Image file not found: <image path>".)
C16_ExtractionFailureResult ==
    \A i \in 1..Len(Produced) :
        ExtRaisedFor(i) =>
            LET r == Produced[i]
                k == CHOOSE e \in ExtCallsFor(i) : TRUE
            IN  /\ r.match_result = "ERROR"
                /\ r.processing_time_ms # None
                /\ r.expected_text = RefExpected(i)
                /\ r.expected_text # ""
                /\ r.ocr_output = ""
                /\ r.confidence_score = None
                /\ r.error_message # None
                /\ \E j \in 1..Len(r.error_message[1]) :
                      r.error_message[1][j] = ext_calls[k].out.raises
                /\ CmpCallsFor(i) = {}

\* C17: a step whose expected_string_id has no entry in the loaded map, or maps
\* to the empty string, is classified ERROR with an error message naming that
\* identifier, whether or not its screenshot exists and whether or not its
\* coordinates exist.
C17_MissingExpectedTextFirst ==
    \A i \in 1..Len(Produced) :
        RefExpected(i) = "" =>
            /\ Produced[i].match_result = "ERROR"
            /\ Produced[i].error_message =
                  Some(<<"Expected string not found", InputSteps[i].expected_string_id>>)

\* The identifier maps to the empty string, the screenshot does not exist and
\* the coordinate index has no entry for the step.
C17_Witness ==
    \E i \in 1..Len(Produced) :
        /\ InputSteps[i].expected_string_id \in DOMAIN loaded.strings[1]
        /\ RefExpected(i) = ""
        /\ RefImageMissing(i)
        /\ RefCoordinateMissing(i)
        /\ Produced[i].match_result = "ERROR"

\* The identifier has no entry, while the screenshot and the coordinates exist.
C17_WitnessAbsent ==
    \E i \in 1..Len(Produced) :
        /\ InputSteps[i].expected_string_id \notin DOMAIN loaded.strings[1]
        /\ ~RefImageMissing(i)
        /\ ~RefCoordinateMissing(i)
        /\ Produced[i].match_result = "ERROR"

\* Step i of the running validate_all is finished: its result is in the result
\* list and every observer has been given it as a step-completed event.
StepFinished(i) ==
    /\ i <= Len(results)
    /\ results[i].step = loaded.steps[1][i]
    /\ \A p \in 1..Len(observers) :
          \E k \in 1..Len(hook_calls) :
              /\ hook_calls[k].pos = p
              /\ hook_calls[k].event = step_event(results[i])

\* C20: within one validate_all call the steps do not overlap and are taken in
\* step-list order: the extractor and the comparator have been called for step j
\* only if every step before j is finished (result appended, step-completed
\* delivered to every observer), each call is for the step at its place in the
\* loaded list, and the calls come in increasing step order.
C20_StepsSequential ==
    call = "validate_all" =>
        /\ \A k \in 1..Len(ext_calls) :
              /\ ext_calls[k].step = loaded.steps[1][ext_calls[k].idx]
              /\ \A i \in 1..(ext_calls[k].idx - 1) : StepFinished(i)
              /\ \A m \in 1..(k - 1) : ext_calls[m].idx < ext_calls[k].idx
        /\ \A k \in 1..Len(cmp_calls) :
              /\ cmp_calls[k].step = loaded.steps[1][cmp_calls[k].idx]
              /\ \A i \in 1..(cmp_calls[k].idx - 1) : StepFinished(i)
              /\ \A m \in 1..(k - 1) : cmp_calls[m].idx < cmp_calls[k].idx
              /\ \E e \in 1..Len(ext_calls) : ext_calls[e].idx = cmp_calls[k].idx
        /\ pc \in {"step_resolve", "extract", "compare"} =>
              /\ Len(results) = idx - 1
              /\ step = Some(loaded.steps[1][idx])
              /\ \A i \in 1..(idx - 1) : StepFinished(i)

\* The second step is being compared while two observers are registered: the
\* first step was extracted, compared, appended and delivered to both.
C20_Witness ==
    /\ call = "validate_all"
    /\ pc = "compare"
    /\ idx = 2
    /\ Len(observers) = 2
    /\ Len(ext_calls) = 2
    /\ Len(cmp_calls) = 1
    /\ Len(results) = 1
    /\ results[1].match_result \in {"PASS", "FAIL"}

(***************************************************************************)
(* Observers that call back into the engine from inside a hook.  The hooks *)
(* of "unsubscriber" call engine.remove_observer(self); the                *)
(* on_step_complete hook of "revalidator" calls                            *)
(* engine.validate_step(result.step).  The nested validate_step runs to its*)
(* end inside the hook: it enters _load_data, which assigns the three      *)
(* caches of the one engine, runs _validate_step, and leaves through the   *)
(* finally clause, which sets the three caches to None, whether the nested *)
(* loader, extractor or comparator returned or raised.  The histories      *)
(* loaded, ext_calls and cmp_calls keep recording the outer call only.     *)
(* CallbackSpec is the engine with these observers.                        *)
(***************************************************************************)
CallbackObservers == {"quiet", "unsubscriber", "revalidator"}

hook_unsubscribes(o) == o = "unsubscriber"

hook_revalidates(o, event) == o = "revalidator" /\ event.hook = "on_step_complete"

\* self._observers after the hook of o has run
observers_after_hook(o) ==
    IF hook_unsubscribes(o) /\ Contains(observers, o) THEN RemoveFirst(observers, o)
    ELSE observers

\* One turn of a `for observer in self._observers` loop: the list iterator
\* yields the element at its index in the list as it is now, the hook runs, and
\* the index moves on by one.  Each hook call is recorded with the observer list
\* as it was when the event occurred.
callback_notify(event) ==
    /\ obs_i <= Len(observers)
    /\ LET o == observers[obs_i]
           registered == IF obs_i = 1 THEN observers
                         ELSE hook_calls[Len(hook_calls)].registered
       IN  /\ hook_calls' = Append(hook_calls,
                  [pos |-> obs_i, observer |-> o, event |-> event,
                   registered |-> registered])
           /\ observers' = observers_after_hook(o)
           /\ IF hook_revalidates(o, event)
              THEN clear_caches
              ELSE UNCHANGED engine_caches
           /\ obs_i' = next_observer(obs_i, FALSE)
    /\ UNCHANGED <<files, call, pc, loop_steps, idx, step, locals, results, outcome,
                   loaded, open_calls, ext_calls, cmp_calls, arg>>

callback_notify_validation_start ==
    /\ pc = "notify_start"
    /\ callback_notify(start_event(test_steps[1]))

callback_notify_step_complete ==
    /\ pc = "notify_step"
    /\ callback_notify(step_event(results[Len(results)]))

callback_notify_validation_complete ==
    /\ pc = "notify_complete"
    /\ callback_notify(complete_event(results))

\* str(e) of the AttributeError of `self._expected_strings.get` on None
NoneTypeError == <<"'NoneType' object has no attribute 'get'">>

\* _validate_step when a hook may have emptied the caches: the lookup at line
\* 228 raises inside the try block, before expected_text is bound.
step_resolve_after_callback ==
    IF expected_strings = None
    THEN /\ pc = "step_resolve"
         /\ step_returns(exception_result(step[1], "", NoneTypeError))
         /\ UNCHANGED <<observers, files, call, loop_steps, idx, history>>
    ELSE step_resolve

CallbackNext ==
    \/ \E o \in CallbackObservers : add_observer(o)
    \/ \E o \in CallbackObservers : remove_observer(o)
    \/ validate_all
    \/ \E s \in StepPool : validate_step(s)
    \/ load_test_protocol
    \/ load_expected_strings
    \/ load_coordinates
    \/ validate_all_body
    \/ callback_notify_validation_start
    \/ loop_next
    \/ step_resolve_after_callback
    \/ extract_text_from_region
    \/ string_matcher_match
    \/ callback_notify_step_complete
    \/ callback_notify_validation_complete
    \/ validate_all_return

CallbackSpec == Init /\ [][CallbackNext]_vars

\* The hook calls of the event delivered last: from the last call made to the
\* first place of the list onwards.
LastDelivery ==
    LET first == CHOOSE k \in 1..Len(hook_calls) :
                     /\ hook_calls[k].pos = 1
                     /\ \A m \in (k + 1)..Len(hook_calls) : hook_calls[m].pos # 1
    IN  SubSeq(hook_calls, first, Len(hook_calls))

Delivering == pc \in {"notify_start", "notify_step", "notify_complete"} /\ obs_i <= Len(observers)

\* C18: once an event has been delivered, the hooks called for it are those of
\* the observers registered when the event occurred, each once, in the order of
\* the add_observer calls, also when a hook calls add_observer or
\* remove_observer while the event is being delivered.
C18_EveryRegisteredObserverOnce ==
    (hook_calls # <<>> /\ ~Delivering) =>
        [k \in 1..Len(LastDelivery) |-> LastDelivery[k].observer]
            = LastDelivery[1].registered

\* C19: in a validate_all call, from the end of loading until the step loop has
\* finished, the three caches hold what the loader returned at the start of that
\* call, also when an observer callback calls validate_step on the same engine.
C19_CachesStableDuringLoop ==
    (call = "validate_all"
        /\ pc \in {"loaded", "notify_start", "step_resolve", "extract", "compare",
                   "notify_step"}) =>
        /\ test_steps = loaded.steps
        /\ expected_strings = loaded.strings
        /\ coordinates = loaded.coords

\* C21: within one step the pipeline is a straight line: the extractor is
\* called at most once and the comparator at most once for the step, the
\* comparator only with the text the extractor returned for that step, and a
\* step that ended as MISSING_IMAGE, MISSING_COORDINATES or ERROR for missing
\* expected text saw no call, one whose screenshot could not be opened saw no
\* call either, and one that ended as ERROR after the extractor raised saw no
\* comparator call.
C21_StraightLine ==
    /\ \A k, m \in 1..Len(ext_calls) : ext_calls[k].idx = ext_calls[m].idx => k = m
    /\ \A k, m \in 1..Len(cmp_calls) : cmp_calls[k].idx = cmp_calls[m].idx => k = m
    /\ \A k \in 1..Len(cmp_calls) :
          \E e \in 1..Len(ext_calls) :
              /\ ext_calls[e].idx = cmp_calls[k].idx
              /\ ext_calls[e].out.raises = ""
              /\ cmp_calls[k].actual = ext_calls[e].out.text
    /\ \A i \in 1..Len(Produced) :
          /\ Produced[i].match_result \in {"MISSING_IMAGE", "MISSING_COORDINATES"} =>
                ExtCallsFor(i) = {} /\ CmpCallsFor(i) = {}
          /\ (Produced[i].match_result = "ERROR" /\ Produced[i].processing_time_ms = None) =>
                ExtCallsFor(i) = {} /\ CmpCallsFor(i) = {}
          /\ OpenFailedFor(i) => ExtCallsFor(i) = {} /\ CmpCallsFor(i) = {}
          /\ ExtRaisedFor(i) => CmpCallsFor(i) = {}
          /\ Produced[i].match_result \in {"PASS", "FAIL"} =>
                Cardinality(ExtCallsFor(i)) = 1 /\ Cardinality(CmpCallsFor(i)) = 1

\* A batch has returned in which the extractor raised for the first step, which
\* saw one extractor call and no comparator call, and the second step saw one
\* call of each.
C21_Witness ==
    /\ call = "validate_all"
    /\ pc = "idle"
    /\ outcome.kind = "returned"
    /\ Len(results) = 2
    /\ ExtRaisedFor(1)
    /\ Cardinality(ExtCallsFor(1)) = 1
    /\ CmpCallsFor(1) = {}
    /\ Cardinality(ExtCallsFor(2)) = 1
    /\ Cardinality(CmpCallsFor(2)) = 1

\* A batch has returned in which the screenshot of the first step could not be
\* opened: the step is an ERROR with an elapsed time and saw no extractor call.
C21_WitnessUnopened ==
    /\ call = "validate_all"
    /\ pc = "idle"
    /\ outcome.kind = "returned"
    /\ Len(results) = 2
    /\ OpenFailedFor(1)
    /\ results[1].match_result = "ERROR"
    /\ results[1].processing_time_ms # None
    /\ ExtCallsFor(1) = {}
    /\ Cardinality(ExtCallsFor(2)) = 1

(***************************************************************************)
(* validate_step against validate_all                                      *)
(***************************************************************************)
\* The classification, expected text, extracted text and confidence of a result.
ProjectedFields(r) ==
    [match_result |-> r.match_result, expected_text |-> r.expected_text,
     ocr_output |-> r.ocr_output, confidence_score |-> r.confidence_score]

\* What _validate_step yields for step s as a function of the datasets, the
\* screenshots on disk (looking for one with too long a name raises), how
\* opening an image ends (image -> exception or ""),
\* an extractor (image, box) -> outcome and a comparator (expected, actual) ->
\* outcome.
step_projection(s, strings, index, shots, opener, extractor, comparator) ==
    LET id  == s.expected_string_id
        key == <<s.step_id, s.screen_id, s.expected_string_id>>
        expected == IF id \in DOMAIN strings THEN strings[id] ELSE ""
        blank(c) == [match_result |-> c, expected_text |-> expected,
                     ocr_output |-> "", confidence_score |-> None]
    IN  IF expected = "" THEN blank("ERROR")
        ELSE IF s.screen_id = LongScreenId THEN blank("ERROR")
        ELSE IF s.screen_id \notin shots THEN blank("MISSING_IMAGE")
        ELSE IF key \notin DOMAIN index THEN blank("MISSING_COORDINATES")
        ELSE IF opener[s.screen_id] # "" THEN blank("ERROR")
        ELSE LET ext == extractor[<<s.screen_id, to_tuple(index[key])>>]
             IN  IF ext.raises # "" THEN blank("ERROR")
                 ELSE LET cmp == comparator[<<expected, ext.text>>]
                      IN  IF cmp.raises # "" THEN blank("ERROR")
                          ELSE [match_result |-> IF cmp.is_match THEN "PASS" ELSE "FAIL",
                                expected_text |-> expected,
                                ocr_output |-> ext.text,
                                confidence_score |->
                                    <<MinOf(ext.confidence, cmp.confidence)>>]

\* Image.open, the extractor and the comparator as the functions the recorded
\* calls for input step i show them to be.
ObservedOpener(i) ==
    [a \in {open_calls[k].image : k \in OpenCallsFor(i)} |->
        open_calls[CHOOSE k \in OpenCallsFor(i) : open_calls[k].image = a].raises]

ObservedExtractor(i) ==
    [a \in {<<ext_calls[k].image, ext_calls[k].box>> : k \in ExtCallsFor(i)} |->
        ext_calls[CHOOSE k \in ExtCallsFor(i) :
                      <<ext_calls[k].image, ext_calls[k].box>> = a].out]

ObservedComparator(i) ==
    [a \in {<<cmp_calls[k].expected, cmp_calls[k].actual>> : k \in CmpCallsFor(i)} |->
        cmp_calls[CHOOSE k \in CmpCallsFor(i) :
                      <<cmp_calls[k].expected, cmp_calls[k].actual>> = a].out]

\* C22: validate_step(s) and the entry of validate_all for s are the same
\* function of the step, the loaded datasets, the screenshots, the outcome of
\* opening the screenshot, the extractor and the comparator: in both entry points the classification, expected text,
\* extracted text and confidence of every produced result are those of
\* step_projection, which does not look at the entry point.
C22_StepProjection ==
    (loaded.coords # None) =>
        \A i \in 1..Len(Produced) :
            ProjectedFields(Produced[i]) =
                step_projection(InputSteps[i], loaded.strings[1], loaded.coords[1],
                                files, ObservedOpener(i), ObservedExtractor(i),
                                ObservedComparator(i))

\* validate_step has returned a FAIL whose confidence is the smaller of an
\* extraction confidence and a higher comparison confidence.
C22_Witness ==
    /\ call = "validate_step"
    /\ pc = "idle"
    /\ outcome.kind = "returned"
    /\ outcome.results[1].match_result = "FAIL"
    /\ outcome.results[1].confidence_score = <<0>>
    /\ \E k \in CmpCallsFor(1) : cmp_calls[k].out.confidence = 1

\* validate_all has returned a FAIL entry of the same kind.
C22_WitnessBatch ==
    /\ call = "validate_all"
    /\ pc = "idle"
    /\ outcome.kind = "returned"
    /\ Len(outcome.results) = 2
    /\ outcome.results[2].match_result = "FAIL"
    /\ outcome.results[2].confidence_score = <<0>>
    /\ \E k \in CmpCallsFor(2) : cmp_calls[k].out.confidence = 1

(***************************************************************************)
(* The OCR configuration of a step and the default extractor               *)
(***************************************************************************)
MaxTagLen == 4

TagChars == {"f", "r", "-"}

\* Locale tags: a primary subtag, with or without further subtags.
LocaleTags ==
    {tag \in SeqsUpTo(TagChars, MaxTagLen) :
        tag # <<>> /\ tag[1] # "-" /\ tag[Len(tag)] # "-"}

TesseractOptions == {"", "--psm 7"}

\* ValidationConfig, the fields _extract_text_from_region reads
ValidationConfigs ==
    [language : LocaleTags, tesseract_config : TesseractOptions,
     enable_preprocessing : BOOLEAN]

\* The region of the screenshot cut out by img.crop.  pil_error is the message
\* of the exception a PIL operation of the preprocessor raises on the region
\* (a region without pixels), "" when none does.
CroppedImages ==
    [region : {"crop"}, preprocessed : {FALSE}, pil_error : {"", "division by zero"}]

\* One detection in the dictionary pytesseract.image_to_data returns: its
\* confidence, an int or a float, and its text.
Detections ==
    {[conf |-> PythonValue("int", 0 - 1, 1), text |-> <<>>],
     [conf |-> PythonValue("int", 96, 1), text |-> <<"H", "i">>],
     [conf |-> PythonValue("float", 181, 2), text |-> <<" ", "y", "o", "\n">>],
     [conf |-> PythonValue("float", 1, 2), text |-> <<"x">>],
     [conf |-> PythonValue("int", 50, 1), text |-> <<" ">>]}

MaxDetections == 2

\* What pytesseract.image_to_data does when called: it returns the detections
\* or raises.
BackendOutcomes ==
    {[raises |-> "", data |-> d] : d \in SeqsUpTo(Detections, MaxDetections)}
        \cup {[raises |-> "TesseractError", data |-> <<>>]}

\* A configuration, the region cropped for a step, and the backend.
OcrInputs == [config : ValidationConfigs, image : CroppedImages, backend : BackendOutcomes]

\* language.split('-')[0]
split_first(language) ==
    LET dashes == {i \in 1..Len(language) : language[i] = "-"}
    IN  IF dashes = {} THEN language
        ELSE SubSeq(language, 1, (CHOOSE i \in dashes : \A j \in dashes : i <= j) - 1)

\* '-' in language
has_dash(language) == \E i \in 1..Len(language) : language[i] = "-"

\* self.config.language.split('-')[0] if '-' in self.config.language else 'eng'
ocr_language(language) ==
    IF has_dash(language) THEN split_first(language) ELSE <<"e", "n", "g">>

\* The OCRConfig built by _extract_text_from_region
ocr_config(config) ==
    [language |-> ocr_language(config.language),
     config |-> IF config.tesseract_config = "" THEN "--psm 8" ELSE config.tesseract_config,
     preprocessing_enabled |-> config.enable_preprocessing]

\* OCRConfig.to_tesseract_config
to_tesseract_config(config) ==
    <<config.config,
      " -c tessedit_char_whitelist=0123456789ABCDEFGHIJKLMNOPQRSTUVWXYZabcdefghijklmnopqrstuvwxyz ">>

\* BasicImagePreprocessor.preprocess, as a mark on the image; an exception of a
\* PIL operation comes out as ImageProcessingError
preprocess(image) ==
    IF image.pil_error # ""
    THEN Raised(<<"ImageProcessingError", <<"Failed to preprocess image", image.pil_error>>>>)
    ELSE Returned([image EXCEPT !.preprocessed = TRUE])

\* ' '.join(words)
RECURSIVE join_words(_)
join_words(words) ==
    IF words = <<>> THEN <<>>
    ELSE IF Len(words) = 1 THEN words[1]
    ELSE words[1] \o <<" ">> \o join_words(Tail(words))

\* The loop over data['conf']: the detections with int(conf) > 0 and a word
\* that is not blank, then the joined words and the average confidence on the
\* 0-1 scale.
text_with_confidence(data) ==
    LET kept == SelectSeq(data, LAMBDA d : literal_int(d.conf)[1] > 0 /\ strip(d.text) # <<>>)
        words == [i \in 1..Len(kept) |-> strip(kept[i].text)]
        confidences == [i \in 1..Len(kept) |-> literal_int(kept[i].conf)[1]]
        avg_confidence == average(confidences)
    IN  <<join_words(words), Ratio(avg_confidence.num, avg_confidence.den * 100)>>

\* TesseractOCREngine.extract_text_with_confidence(image, config) with the
\* given backend: what it returns or raises, the images the preprocessor was
\* called with and the calls pytesseract.image_to_data received.
tesseract_extract_text_with_confidence(image, config, backend) ==
    LET processed_image == preprocess(image)
        failed(e) == Raised(<<"OCRError", <<"Failed to extract text with confidence", e>>>>)
        handed == [image |-> processed_image.value, lang |-> config.language,
                   config |-> to_tesseract_config(config)]
    IN  IF processed_image.kind = "raised"
        THEN failed(processed_image.value[2])
                 @@ [preprocess_calls |-> <<image>>, image_to_data_calls |-> <<>>]
        ELSE IF backend.raises # ""
        THEN failed(<<backend.raises>>)
                 @@ [preprocess_calls |-> <<image>>, image_to_data_calls |-> <<handed>>]
        ELSE Returned(text_with_confidence(backend.data))
                 @@ [preprocess_calls |-> <<image>>, image_to_data_calls |-> <<handed>>]

\* _extract_text_from_region once the screenshot is open and cropped, with the
\* default extractor: an exception of the extractor, never a FileNotFoundError,
\* comes out as OCRError
default_region_text(config, image, backend) ==
    LET extracted == tesseract_extract_text_with_confidence(image, ocr_config(config), backend)
    IN  IF extracted.kind = "raised"
        THEN [extracted EXCEPT
                 !.value = <<"OCRError", <<"Failed to extract text from region",
                                           extracted.value[2]>>>>]
        ELSE extracted

OcrConfigInit == PureInit(OcrInputs)

\* The OCRConfig a step's extraction is called with
build_ocr_config == PureCall("build_ocr_config", Returned(ocr_config(arg[1].config)))

\* _extract_text_from_region with the default extractor
default_extract_text_from_region ==
    PureCall("default_extract_text_from_region",
             default_region_text(arg[1].config, arg[1].image, arg[1].backend))

OcrConfigNext == build_ocr_config \/ default_extract_text_from_region

OcrConfigSpec == OcrConfigInit /\ [][OcrConfigNext]_vars

\* C23: the language of the OCR configuration is the part of the configured
\* locale tag before its first '-', for tags with a region and for tags without.
C23_PrimarySubtag ==
    call = "build_ocr_config" =>
        outcome.value.language = split_first(arg[1].config.language)

\* C24: the default extractor calls the preprocessor exactly when the
\* configuration enables preprocessing, and the image it hands the backend is
\* the preprocessed one exactly then.
C24_PreprocessingFollowsFlag ==
    call = "default_extract_text_from_region" =>
        /\ outcome.preprocess_calls # <<>> <=> arg[1].config.enable_preprocessing
        /\ \A k \in 1..Len(outcome.image_to_data_calls) :
              outcome.image_to_data_calls[k].image.preprocessed
                  <=> arg[1].config.enable_preprocessing

(***************************************************************************)
(* load_test_protocol of the CSV and JSON loaders                          *)
(***************************************************************************)
MaxProtocolRows == 2

\* The cells of a protocol record: an id, an id with a leading space, a blank,
\* no cell (a short CSV row, an absent JSON field).
IdCells == {Some(<<"a">>), Some(<<" ", "\\x1f", "b", "\\x85">>), Some(<<"\t", "\\u3000">>), None}

ProtocolRows == [step_id : IdCells, screen_id : IdCells, expected_string_id : IdCells]
ProtocolTables == SeqsUpTo(ProtocolRows, MaxProtocolRows)

ProtocolFields(row) == <<row.step_id, row.screen_id, row.expected_string_id>>

\* TestStep(step_id=....strip(), screen_id=....strip(), expected_string_id=....strip())
protocol_step(row) ==
    TestStep(strip(row.step_id[1]), strip(row.screen_id[1]),
             strip(row.expected_string_id[1]))

\* One turn of the CSV loop: None when the row is skipped.  A row without a
\* cell raises inside the loop body and is skipped; a row with a blank cell is
\* skipped by the required-data check.
csv_protocol_entry(row) ==
    IF \E i \in 1..3 : ProtocolFields(row)[i] = None THEN None
    ELSE IF \E i \in 1..3 : strip(ProtocolFields(row)[i][1]) = <<>> THEN None
    ELSE Some(protocol_step(row))

\* One turn of the JSON loop: only the presence of the fields is required.
json_protocol_entry(row) ==
    IF \E i \in 1..3 : ProtocolFields(row)[i] = None THEN None
    ELSE Some(protocol_step(row))

\* steps.append(step) for the rows not skipped
RECURSIVE collect_steps(_)
collect_steps(entries) ==
    IF entries = <<>> THEN <<>>
    ELSE IF entries[1] = None THEN collect_steps(Tail(entries))
    ELSE <<entries[1][1]>> \o collect_steps(Tail(entries))

\* `if not steps: raise DataLoadError(...)`, else `return steps`
protocol_result(steps) ==
    IF steps = <<>>
    THEN Raised(<<"DataLoadError", "No valid test steps found in protocol file">>)
    ELSE Returned(steps)

csv_protocol(rows) ==
    protocol_result(collect_steps([i \in 1..Len(rows) |-> csv_protocol_entry(rows[i])]))

json_protocol(rows) ==
    protocol_result(collect_steps([i \in 1..Len(rows) |-> json_protocol_entry(rows[i])]))

ProtocolInit == PureInit(ProtocolTables)

\* CSVDataLoader().load_test_protocol(path)
csv_load_test_protocol == PureCall("csv_load_test_protocol", csv_protocol(arg[1]))

\* JSONDataLoader().load_test_protocol(path)
json_load_test_protocol == PureCall("json_load_test_protocol", json_protocol(arg[1]))

ProtocolNext == csv_load_test_protocol \/ json_load_test_protocol

ProtocolSpec == ProtocolInit /\ [][ProtocolNext]_vars

\* A record with its three identifiers present and non-empty after trimming.
ValidRecord(row) ==
    \A i \in 1..3 :
        ProtocolFields(row)[i] # None /\ strip(ProtocolFields(row)[i][1]) # <<>>

\* C25: load_test_protocol, CSV or JSON, returns the trimmed steps of the
\* records whose three identifiers are non-empty after trimming, in source
\* order, skips every other record, and raises a load error when no record is
\* valid.
C25_ProtocolStepsValid ==
    call \in {"csv_load_test_protocol", "json_load_test_protocol"} =>
        LET valid == SelectSeq(arg[1], ValidRecord)
        IN  IF valid = <<>>
            THEN outcome.kind = "raised"
            ELSE /\ outcome.kind = "returned"
                 /\ outcome.value = [i \in 1..Len(valid) |-> protocol_step(valid[i])]

\* C26: every box in the index load_coordinates returns (CSV or JSON) has
\* left < right, top < bottom and no negative component, and is the box of a
\* row whose four values are integers in order; a row with a bad box is
\* skipped, the load goes on, and the entry an earlier valid row made for the
\* same key stays; the load raises only when the table has no valid row.
C26_CoordinatesWellFormed ==
    call \in {"csv_load_coordinates", "json_load_coordinates"} =>
        LET rows == arg[1]
            valid == {i \in 1..Len(rows) : rows[i] \in ValidRows}
            last_valid == {i \in valid :
                              \A j \in valid : row_key(rows[j]) = row_key(rows[i]) => j <= i}
        IN  /\ outcome.kind = "returned" =>
                  /\ \A k \in DOMAIN outcome.value :
                        LET c == outcome.value[k]
                        IN  /\ c.left < c.right
                            /\ c.top < c.bottom
                            /\ c.left >= 0 /\ c.top >= 0 /\ c.right >= 0 /\ c.bottom >= 0
                            /\ \E i \in 1..Len(rows) :
                                  /\ row_key(rows[i]) = k
                                  /\ rows[i].literals = {}
                                  /\ row_coordinate(rows[i]) = Some(c)
                  /\ \A i \in last_valid :
                        /\ row_key(rows[i]) \in DOMAIN outcome.value
                        /\ outcome.value[row_key(rows[i])] =
                               Coordinate(parse_int(rows[i].left[1])[1],
                                          parse_int(rows[i].top[1])[1],
                                          parse_int(rows[i].right[1])[1],
                                          parse_int(rows[i].bottom[1])[1])
            /\ outcome.kind = "raised" => valid = {}
            /\ outcome.kind \in {"returned", "raised"}

\* C27: the classification of a result determines its optional fields: a
\* confidence exactly for PASS and FAIL; an error message exactly for the other
\* classifications; an elapsed time for PASS, FAIL and an ERROR that came from a
\* raised exception, none for MISSING_IMAGE, MISSING_COORDINATES and the ERROR
\* for missing expected text; an empty extracted text unless PASS or FAIL; and
\* for MISSING_IMAGE and MISSING_COORDINATES the resolved expected text.
C27_FieldsByClassification ==
    \A i \in 1..Len(Produced) :
        LET r == Produced[i]
            scored == r.match_result \in {"PASS", "FAIL"}
            raised == \/ RefExpected(i) # "" /\ RefImageUncheckable(i)
                      \/ OpenFailedFor(i) \/ ExtRaisedFor(i) \/ CmpRaisedFor(i)
            missing == r.match_result \in {"MISSING_IMAGE", "MISSING_COORDINATES"}
        IN  /\ r.confidence_score # None <=> scored
            /\ r.error_message # None <=> ~scored
            /\ r.processing_time_ms # None <=>
                  (scored \/ (r.match_result = "ERROR" /\ raised))
            /\ missing => r.processing_time_ms = None
            /\ (r.match_result = "ERROR" /\ RefExpected(i) = "") =>
                  r.processing_time_ms = None
            /\ ~scored => r.ocr_output = ""
            /\ missing => r.expected_text = RefExpected(i) /\ r.expected_text # ""

\* A batch returned an ERROR for missing expected text, without elapsed time,
\* and an ERROR after the comparator raised, with one.
C27_Witness ==
    /\ call = "validate_all"
    /\ pc = "idle"
    /\ outcome.kind = "returned"
    /\ Len(results) = 2
    /\ results[1].match_result = "ERROR"
    /\ results[1].processing_time_ms = None
    /\ results[2].match_result = "ERROR"
    /\ results[2].processing_time_ms # None
    /\ CmpRaisedFor(2)

\* A step whose screen id is too long for a file name came out as an ERROR with
\* an elapsed time, its expected text kept, the screenshot never opened.
C27_WitnessUncheckable ==
    \E i \in 1..Len(Produced) :
        /\ RefImageUncheckable(i)
        /\ Produced[i].match_result = "ERROR"
        /\ Produced[i].processing_time_ms # None
        /\ Produced[i].expected_text # ""
        /\ OpenCallsFor(i) = {}

\* A batch returned a MISSING_IMAGE and a MISSING_COORDINATES result.
C27_WitnessMissing ==
    /\ call = "validate_all"
    /\ pc = "idle"
    /\ outcome.kind = "returned"
    /\ Len(results) = 2
    /\ results[1].match_result = "MISSING_IMAGE"
    /\ results[2].match_result = "MISSING_COORDINATES"
    /\ results[2].expected_text # ""

\* C28: when validate_all fails before its loop, because a loader call raised
\* or because the loaded step list is empty, no hook of any observer is called
\* in that call and the caller gets a ValidationError.
C28_SilentEarlyFailure ==
    (call = "validate_all" /\ (loaded.coords = None \/ loaded.steps[1] = <<>>)) =>
        /\ hook_calls = <<>>
        /\ pc = "idle" =>
              /\ outcome.kind = "raised"
              /\ outcome.error[1] = "ValidationError"
              /\ outcome.results = <<>>

\* With two observers registered, the three loads succeeded, the step list was
\* empty and the call has ended.
C28_Witness ==
    /\ call = "validate_all"
    /\ pc = "idle"
    /\ Len(observers) = 2
    /\ loaded.coords # None
    /\ loaded.steps[1] = <<>>
    /\ outcome.kind = "raised"

\* With two observers registered, the first loader call raised.
C28_WitnessLoader ==
    /\ call = "validate_all"
    /\ pc = "idle"
    /\ Len(observers) = 2
    /\ loaded.steps = None
    /\ outcome.kind = "raised"

(***************************************************************************)
(* A compared step under the default comparator: lines 261-281 of          *)
(* _validate_step with create_default_matcher() as string_matcher.         *)
(* Confidences are counted in twentieths, as in the comparator.            *)
(***************************************************************************)
\* The extraction returned confidence ocr_confidence for the pair in arg; the
\* value records that confidence beside the result built from it.
default_matcher_step ==
    \E ocr_confidence \in SimilarityLevels :
        LET matched == composite_match(default_children(arg[1]), FALSE)
        IN  PureCall("default_matcher_step",
                Returned([ocr_confidence |-> ocr_confidence,
                          result |-> compared_result(TestStep("S1", "A", "g"),
                                         "expected", "actual", ocr_confidence,
                                         matched[1], matched[2])]))

ComparedStepNext == default_matcher_step

ComparedStepSpec == MatcherInit /\ [][ComparedStepNext]_vars

\* C29: with the default comparator every FAIL result has confidence 0,
\* whatever the extraction confidence and the similarities the children found.
C29_FailConfidenceZero ==
    call = "default_matcher_step" =>
        (outcome.value.result.match_result = "FAIL" =>
            outcome.value.result.confidence_score = Some(0))

\* A FAIL whose extraction was fully confident and whose children found
\* similarities just below their thresholds.
C29_Witness ==
    /\ call = "default_matcher_step"
    /\ outcome.value.result.match_result = "FAIL"
    /\ outcome.value.ocr_confidence = 20
    /\ arg[1].normalized = NormalizedThreshold - 1
    /\ arg[1].cleaned = FuzzyThreshold - 1

(***************************************************************************)
(* CSVReportGenerator.get_summary_stats (src/src/reporters.py) beside      *)
(* get_validation_summary.                                                 *)
(***************************************************************************)
\* result_counts: for every member of MatchResult the number of results with it
result_counts(rs) == [m \in MatchResult |-> count_results(rs, m)]

\* Mutant: only the ERROR results are counted as errors.
other_results_error_only(counts) == counts["ERROR"]

\* sum(result_counts[key] for key in result_counts if key not in [PASS, FAIL])
other_results(counts) ==
    LET keys == <<"PASS", "FAIL", "ERROR", "MISSING_IMAGE", "MISSING_COORDINATES">>
    IN  SumSeq([i \in 1..Len(keys) |->
                   IF keys[i] \notin {"PASS", "FAIL"} THEN counts[keys[i]] ELSE 0])

\* The dictionary _calculate_summary_stats returns.
summary_stats(rs) ==
    IF rs = <<>>
    THEN [total_steps |-> 0, passed |-> 0, failed |-> 0, errors |-> 0,
          pass_rate |-> ZeroRatio, average_confidence |-> ZeroRatio,
          average_processing_time_ms |-> ZeroRatio,
          results_by_type |-> [m \in {} |-> 0]]
    ELSE LET passed == result_counts(rs)["PASS"]
             valid_confidence_results == SelectSeq(rs, LAMBDA r : r.confidence_score # None)
             avg_confidence ==
                 IF valid_confidence_results # <<>>
                 THEN Ratio(SumSeq([k \in 1..Len(valid_confidence_results) |->
                                       valid_confidence_results[k].confidence_score[1]]),
                            Len(valid_confidence_results))
                 ELSE ZeroRatio
             timed_results == SelectSeq(rs, LAMBDA r : r.processing_time_ms # None)
             avg_processing_time ==
                 IF timed_results # <<>>
                 THEN Ratio(SumSeq([k \in 1..Len(timed_results) |->
                                       timed_results[k].processing_time_ms[1]]),
                            Len(timed_results))
                 ELSE ZeroRatio
             \* (passed / len(results)) * 100.0
             quotient == Ratio(passed, Len(rs))
         IN  [total_steps |-> Len(rs),
              passed |-> passed,
              failed |-> result_counts(rs)["FAIL"],
              errors |-> other_results(result_counts(rs)),
              pass_rate |-> Ratio(quotient.num * 100, quotient.den),
              average_confidence |-> avg_confidence,
              average_processing_time_ms |-> avg_processing_time,
              results_by_type |-> result_counts(rs)]

\* CSVReportGenerator().get_summary_stats(results)
get_summary_stats == PureCall("get_summary_stats", Returned(summary_stats(arg[1])))

ReportNext == get_validation_summary \/ get_summary_stats

ReportSpec == SummaryInit /\ [][ReportNext]_vars

\* a == b for two floats
SameFloat(a, b) == a.num * b.den = b.num * a.den

\* The engine's summary and the reporter's statistics of one result list.
SummariesAgree(engine, reporter) ==
    /\ reporter.total_steps = engine.total_steps
    /\ reporter.passed = engine.passed
    /\ reporter.failed = engine.failed
    /\ SameFloat(reporter.pass_rate, engine.pass_rate)
    /\ SameFloat(reporter.average_confidence, engine.average_confidence)
    /\ SameFloat(reporter.average_processing_time_ms, engine.average_processing_time_ms)
    /\ reporter.errors = engine.errors + engine.missing_images + engine.missing_coordinates
    /\ reporter.passed + reporter.failed + reporter.errors = reporter.total_steps
    /\ engine.passed + engine.failed + engine.errors + engine.missing_images
           + engine.missing_coordinates = engine.total_steps

\* C30: for every result list the engine's summary and the reporter's
\* statistics have the same total_steps, passed, failed, pass_rate,
\* average_confidence and average_processing_time_ms; the reporter's errors is
\* the sum of the engine's errors, missing_images and missing_coordinates; and
\* in each of them the counts add up to total_steps.
C30_SummariesAgree ==
    /\ call = "get_summary_stats" =>
          SummariesAgree(validation_summary(arg[1]), outcome.value)
    /\ call = "get_validation_summary" =>
          SummariesAgree(outcome.value, summary_stats(arg[1]))

\* The reporter has summarised an ERROR, a MISSING_IMAGE and a scored PASS:
\* its errors is 2, the engine's is 1.
C30_Witness ==
    /\ call = "get_summary_stats"
    /\ Len(arg[1]) = 3
    /\ arg[1][1].match_result = "ERROR"
    /\ arg[1][2].match_result = "MISSING_IMAGE"
    /\ arg[1][3].match_result = "PASS"
    /\ arg[1][3].confidence_score # None
    /\ outcome.value.errors = 2
    /\ validation_summary(arg[1]).errors = 1

\* Both have summarised the empty list.
C30_WitnessEmpty ==
    /\ call = "get_summary_stats"
    /\ arg[1] = <<>>
    /\ outcome.value.total_steps = 0
====
